---- MODULE Spec2Model ----
(***************************************************************************)
(* Model of the keystore pipeline of web3wallet-cli: mnemonic generation,  *)
(* keystore construction and validation, password-based encryption and     *)
(* decryption of a wallet, and keystore loading.                           *)
(*                                                                         *)
(* Cryptographic primitives (Argon2id, PBKDF2, HMAC-SHA256, AES-256-GCM)   *)
(* are modelled symbolically: the output of a primitive is a term that     *)
(* records its inputs, so two outputs are equal exactly when the inputs    *)
(* are equal.  Byte buffers carry their length where the code depends on   *)
(* it (key, salt, nonce).                                                  *)
(***************************************************************************)
EXTENDS Integers, Sequences, FiniteSets, TLC

VARIABLES
    disk,   \* content of the keystore file at the path the commands use
    last    \* the last call: operation, arguments, and what it left behind
            \* (result, primitive calls in order, key buffer at exit)

vars == <<disk, last>>

----------------------------------------------------------------------------
(* Bounds of the model.                                                    *)

\* number of distinct values the random source can return for one buffer
MaxRand == 2
\* word counts 0..MaxWordCount are passed to MnemonicService::generate
MaxWordCount == 25

\* indices 0..MaxIndex are passed to Wallet::derive_address
MaxIndex == 2

RandIds == 1..MaxRand

Passwords == {"correct horse", "Tr0ub4dor"}

----------------------------------------------------------------------------
(* Program constants, src/src/config.rs                                    *)

DEFAULT_ARGON2_MEMORY == 47104
DEFAULT_ARGON2_ITERATIONS == 1
DEFAULT_ARGON2_PARALLELISM == 1
LOW_MEMORY_ARGON2_MEMORY == 19456
LOW_MEMORY_ARGON2_ITERATIONS == 2
SALT_LENGTH == 32
NONCE_LENGTH == 32
KEY_LENGTH == 32
PBKDF2_ITERATIONS == 100000
\* nonce size of the Aes256Gcm type (AesGcm<Aes256, U12>)
GCM_NONCE_SIZE == 12
SUPPORTED_WORD_COUNTS == <<12, 24>>
ENTROPY_BITS_12 == 128
ENTROPY_BITS_24 == 256
DEFAULT_DERIVATION_PATH == "m/44'/60'/0'/0"

get_argon2_config(use_low_memory) ==
    IF use_low_memory
    THEN <<LOW_MEMORY_ARGON2_MEMORY, LOW_MEMORY_ARGON2_ITERATIONS, DEFAULT_ARGON2_PARALLELISM>>
    ELSE <<DEFAULT_ARGON2_MEMORY, DEFAULT_ARGON2_ITERATIONS, DEFAULT_ARGON2_PARALLELISM>>

----------------------------------------------------------------------------
(* Results: WalletResult<T>, plus the panic outcome of a call.             *)

Ok(v) == [tag |-> "Ok", value |-> v]
Err(e) == [tag |-> "Err", error |-> e]
Panic(site) == [tag |-> "Panic", at |-> site]

IsOk(r) == r.tag = "Ok"
IsErr(r) == r.tag = "Err"
IsPanic(r) == r.tag = "Panic"

\* Option<T>
None == <<>>
Some(v) == <<v>>

\* CryptographicError variants used by the pipeline
KdfFailed(details) ==
    [domain |-> "Cryptographic", variant |-> "KdfFailed", details |-> details]
DecryptionFailed(context) ==
    [domain |-> "Cryptographic", variant |-> "DecryptionFailed", context |-> context]
DataCorruption(details) ==
    [domain |-> "Cryptographic", variant |-> "DataCorruption", details |-> details]
InvalidMnemonic(detail, suggestion) ==
    [domain |-> "Cryptographic", variant |-> "InvalidMnemonic",
     detail |-> detail, suggestion |-> suggestion]
InvalidAddressFormat(details, suggestion) ==
    [domain |-> "Cryptographic", variant |-> "InvalidAddressFormat",
     details |-> details, suggestion |-> suggestion]
\* ValidationError::InvalidKeystoreSchema
InvalidKeystoreSchema(error, file_path) ==
    [domain |-> "Validation", variant |-> "InvalidKeystoreSchema",
     error |-> error, file_path |-> file_path]
InvalidPrivateKey(detail, expected) ==
    [domain |-> "Cryptographic", variant |-> "InvalidPrivateKey",
     detail |-> detail, expected |-> expected]
InvalidDerivationPath(path, expected) ==
    [domain |-> "Cryptographic", variant |-> "InvalidDerivationPath",
     path |-> path, expected |-> expected]
AddressGenerationFailed(details) ==
    [domain |-> "Cryptographic", variant |-> "AddressGenerationFailed",
     details |-> details]
\* ValidationError::InvalidAddressFormat
Validation_InvalidAddressFormat(address, expected) ==
    [domain |-> "Validation", variant |-> "InvalidAddressFormat",
     address |-> address, expected |-> expected]

\* the code at the head of the #[error] text of a variant
ErrorCode(e) ==
    IF e.domain = "Cryptographic"
    THEN CASE e.variant = "InvalidMnemonic" -> "CRYPTO_002"
           [] e.variant = "InvalidPrivateKey" -> "CRYPTO_003"
           [] e.variant = "DecryptionFailed" -> "CRYPTO_004"
           [] e.variant = "InvalidDerivationPath" -> "CRYPTO_006"
           [] e.variant = "KdfFailed" -> "CRYPTO_008"
           [] e.variant = "AddressGenerationFailed" -> "CRYPTO_010"
           [] e.variant = "InvalidAddressFormat" -> "CRYPTO_011"
           [] e.variant = "DataCorruption" -> "CRYPTO_012"
    ELSE CASE e.variant = "InvalidAddressFormat" -> "VALIDATION_001"
           [] e.variant = "InvalidKeystoreSchema" -> "VALIDATION_002"

\* Display of WalletError: the text of the domain, then the text of the
\* variant, which begins with its code
Display(e) ==
    <<IF e.domain = "Cryptographic" THEN "Cryptographic error: " ELSE "Validation error: ",
      ErrorCode(e)>>

----------------------------------------------------------------------------
(* Byte buffers and hex strings.                                           *)

\* n bytes returned by the random source (or any n given bytes), named id
RandBytes(n, id) == [kind |-> "rand", len |-> n, id |-> id]
\* vec![0u8; n], and a buffer after zeroize()
ZeroBytes(n) == [kind |-> "zero", len |-> n]
\* a buffer that was never allocated in the call
NoBuffer == [kind |-> "none"]

\* the buffers a run of bytes is made of, in order
Parts(bytes) == IF bytes.kind = "cat" THEN bytes.parts ELSE <<bytes>>

\* the run of bytes made of these buffers
Joined(parts) == IF Len(parts) = 1 THEN parts[1] ELSE [kind |-> "cat", parts |-> parts]

\* slice.len()
RECURSIVE ByteLen(_)
ByteLen(bytes) ==
    IF bytes.kind # "cat" THEN bytes.len
    ELSE IF Len(bytes.parts) = 0 THEN 0
    ELSE ByteLen(Head(bytes.parts)) + ByteLen([bytes EXCEPT !.parts = Tail(@)])

\* the buffer has n bytes
HasLen(bytes, n) == "len" \in DOMAIN bytes /\ bytes.len = n

\* pieces of a buffer: its first n bytes and what follows them, its last n
\* bytes and what precedes them
TakeFirst(bytes, n) ==
    IF HasLen(Head(Parts(bytes)), n) THEN Head(Parts(bytes))
    ELSE [kind |-> "first", of |-> bytes, len |-> n]
DropFirst(bytes, n) ==
    IF bytes.kind = "cat" /\ HasLen(Head(bytes.parts), n) THEN Joined(Tail(bytes.parts))
    ELSE [kind |-> "rest", of |-> bytes, len |-> ByteLen(bytes) - n]
TakeLast(bytes, n) ==
    IF HasLen(Parts(bytes)[Len(Parts(bytes))], n) THEN Parts(bytes)[Len(Parts(bytes))]
    ELSE [kind |-> "last", of |-> bytes, len |-> n]
DropLast(bytes, n) ==
    IF bytes.kind = "cat" /\ HasLen(bytes.parts[Len(bytes.parts)], n)
    THEN Joined(SubSeq(bytes.parts, 1, Len(bytes.parts) - 1))
    ELSE [kind |-> "front", of |-> bytes, cut |-> n]

\* two pieces that follow one another in the same buffer make that buffer
Adjoin(a, b) ==
    IF \/ /\ a.kind = "front" /\ b.kind = "last"
          /\ a.of = b.of /\ a.cut = b.len
       \/ /\ a.kind = "first" /\ b.kind = "rest"
          /\ a.of = b.of /\ a.len + b.len = ByteLen(a.of)
    THEN <<a.of>>
    ELSE <<a, b>>

\* the bytes of a sequence of buffers one after the other, with no mark of
\* where one buffer ends and the next begins
RECURSIVE Stream(_)
Stream(parts) ==
    IF Len(parts) < 2 THEN parts
    ELSE LET rest == Stream(Tail(parts))
             joined == Adjoin(Head(parts), Head(rest))
         IN  IF Len(joined) = 1 THEN Stream(joined \o Tail(rest))
             ELSE <<Head(parts)>> \o rest

\* a.extend(b): the bytes of a followed by the bytes of b
Concat(a, b) == Joined(Stream(Parts(a) \o Parts(b)))

\* hex::encode: two digits per byte, digits from 0-9a-f only
HexEncode(bytes) == [digits |-> "even", clean |-> TRUE, bytes |-> bytes]

\* hex::decode: fails on an odd number of digits and on a non-hex character
HexDecode(s) ==
    IF s.digits = "odd" THEN Err("Odd number of digits")
    ELSE IF ~s.clean THEN Err("Invalid character")
    ELSE Ok(s.bytes)

\* a text of single characters, for the fields the code inspects by
\* character (the address)
Rep(c, n) == [i \in 1..n |-> c]

StartsWith(s, prefix) ==
    /\ Len(s) >= Len(prefix)
    /\ SubSeq(s, 1, Len(prefix)) = prefix

HexChars ==
    {"0", "1", "2", "3", "4", "5", "6", "7", "8", "9",
     "a", "b", "c", "d", "e", "f", "A", "B", "C", "D", "E", "F"}

----------------------------------------------------------------------------
(* Keystore, src/src/models/keystore.rs                                    *)

\* enum KdfParams, the two shapes
KdfParams_Argon2(dklen, memory, time, parallelism, salt) ==
    [shape |-> "Argon2", dklen |-> dklen, memory |-> memory, time |-> time,
     parallelism |-> parallelism, salt |-> salt]

KdfParams_Pbkdf2(dklen, c, prf, salt) ==
    [shape |-> "Pbkdf2", dklen |-> dklen, c |-> c, prf |-> prf, salt |-> salt]

\* Keystore::new writing one KDF name for both shapes
Keystore_new_one_name(alias, address, network, encrypted_data, salt, nonce, mac, kdf_params, now) ==
    [version |-> "1.0.0",
     metadata |-> [alias |-> alias,
                   address |-> address,
                   created_at |-> now,
                   network |-> network,
                   keystore_type |-> "web3wallet-cli"],
     crypto |-> [cipher |-> "aes-256-gcm",
                 ciphertext |-> HexEncode(encrypted_data),
                 cipherparams |-> [iv |-> HexEncode(nonce)],
                 kdf |-> "argon2id",
                 kdfparams |-> kdf_params,
                 mac |-> HexEncode(mac)]]

\* Keystore::new; `now` is the clock reading chrono::Utc::now()
Keystore_new(alias, address, network, encrypted_data, salt, nonce, mac, kdf_params, now) ==
    [version |-> "1.0.0",
     metadata |-> [alias |-> alias,
                   address |-> address,
                   created_at |-> now,
                   network |-> network,
                   keystore_type |-> "web3wallet-cli"],
     crypto |-> [cipher |-> "aes-256-gcm",
                 ciphertext |-> HexEncode(encrypted_data),
                 cipherparams |-> [iv |-> HexEncode(nonce)],
                 kdf |-> IF kdf_params.shape = "Argon2" THEN "argon2id" ELSE "pbkdf2",
                 kdfparams |-> kdf_params,
                 mac |-> HexEncode(mac)]]

\* Keystore::with_pbkdf2
Keystore_with_pbkdf2(alias, address, network, encrypted_data, salt, nonce, mac, iterations, now) ==
    Keystore_new(alias, address, network, encrypted_data, salt, nonce, mac,
                 KdfParams_Pbkdf2(KEY_LENGTH, iterations, "hmac-sha256", HexEncode(salt)),
                 now)

\* Keystore::with_argon2
Keystore_with_argon2(alias, address, network, encrypted_data, salt, nonce, mac, memory, iterations, parallelism, now) ==
    Keystore_new(alias, address, network, encrypted_data, salt, nonce, mac,
                 KdfParams_Argon2(KEY_LENGTH, memory, iterations, parallelism,
                                  HexEncode(salt)),
                 now)

\* Keystore::encrypted_data
Keystore_encrypted_data(self) ==
    LET r == HexDecode(self.crypto.ciphertext) IN
    IF IsOk(r) THEN r ELSE Err(DataCorruption("Invalid ciphertext hex"))

\* Keystore::salt
Keystore_salt(self) ==
    LET r == HexDecode(self.crypto.kdfparams.salt) IN
    IF IsOk(r) THEN r ELSE Err(DataCorruption("Invalid salt hex"))

\* Keystore::nonce
Keystore_nonce(self) ==
    LET r == HexDecode(self.crypto.cipherparams.iv) IN
    IF IsOk(r) THEN r ELSE Err(DataCorruption("Invalid nonce hex"))

\* Keystore::mac
Keystore_mac(self) ==
    LET r == HexDecode(self.crypto.mac) IN
    IF IsOk(r) THEN r ELSE Err(DataCorruption("Invalid MAC hex"))

SchemaError(error) == Err(InvalidKeystoreSchema(error, "keystore"))

\* the KDF parameter block of Keystore::validate
validate_kdfparams(kp) ==
    IF kp.shape = "Argon2"
    THEN IF ~IsOk(HexDecode(kp.salt)) THEN SchemaError("Invalid Argon2 salt hex")
         ELSE IF kp.dklen = 0 \/ kp.memory = 0 \/ kp.time = 0 \/ kp.parallelism = 0
              THEN SchemaError("Invalid Argon2 parameters")
              ELSE Ok(<<>>)
    ELSE IF ~IsOk(HexDecode(kp.salt)) THEN SchemaError("Invalid PBKDF2 salt hex")
         ELSE IF kp.dklen = 0 \/ kp.c = 0
              THEN SchemaError("Invalid PBKDF2 parameters")
              ELSE Ok(<<>>)

\* the address test of Keystore::validate: prefix and length only
address_format_ok(address) ==
    ~(~StartsWith(address, <<"0", "x">>) \/ Len(address) # 42)

\* validate with the network tested before the address
Keystore_validate_reordered(self) ==
    IF self.version = "" THEN SchemaError("Missing version")
    ELSE IF self.metadata.network = "" THEN SchemaError("Missing network")
    ELSE IF ~address_format_ok(self.metadata.address)
         THEN SchemaError("Invalid address format")
    ELSE IF self.crypto.cipher # "aes-256-gcm" THEN SchemaError("Unsupported cipher")
    ELSE IF ~IsOk(HexDecode(self.crypto.ciphertext))
         THEN SchemaError("Invalid ciphertext hex")
    ELSE IF ~IsOk(HexDecode(self.crypto.cipherparams.iv))
         THEN SchemaError("Invalid IV hex")
    ELSE IF ~IsOk(HexDecode(self.crypto.mac)) THEN SchemaError("Invalid MAC hex")
    ELSE validate_kdfparams(self.crypto.kdfparams)

\* Keystore::validate
Keystore_validate(self) ==
    IF self.version = "" THEN SchemaError("Missing version")
    ELSE IF ~address_format_ok(self.metadata.address)
         THEN SchemaError("Invalid address format")
    ELSE IF self.metadata.network = "" THEN SchemaError("Missing network")
    ELSE IF self.crypto.cipher # "aes-256-gcm" THEN SchemaError("Unsupported cipher")
    ELSE IF ~IsOk(HexDecode(self.crypto.ciphertext))
         THEN SchemaError("Invalid ciphertext hex")
    ELSE IF ~IsOk(HexDecode(self.crypto.cipherparams.iv))
         THEN SchemaError("Invalid IV hex")
    ELSE IF ~IsOk(HexDecode(self.crypto.mac)) THEN SchemaError("Invalid MAC hex")
    ELSE validate_kdfparams(self.crypto.kdfparams)

----------------------------------------------------------------------------
(* Wallet, src/src/models/wallet.rs, as far as the keystore pipeline uses  *)
(* it.                                                                     *)

\* struct Wallet
Wallet(mnemonic, master_private_key, address, derivation_path, network, alias, created_at) ==
    [mnemonic |-> mnemonic,
     master_private_key |-> master_private_key,
     address |-> address,
     derivation_path |-> derivation_path,
     network |-> network,
     alias |-> alias,
     created_at |-> created_at]

\* Serialize of Wallet without the skip on master_private_key
Wallet_to_vec_with_key(wallet) ==
    [kind |-> "json",
     doc |-> [mnemonic |-> wallet.mnemonic,
              master_private_key |-> wallet.master_private_key,
              address |-> wallet.address,
              derivation_path |-> wallet.derivation_path,
              network |-> wallet.network,
              alias |-> wallet.alias,
              created_at |-> wallet.created_at]]

\* derive(Serialize) of Wallet: master_private_key is #[serde(skip)]
Wallet_to_vec(wallet) ==
    [kind |-> "json",
     doc |-> [mnemonic |-> wallet.mnemonic,
              address |-> wallet.address,
              derivation_path |-> wallet.derivation_path,
              network |-> wallet.network,
              alias |-> wallet.alias,
              created_at |-> wallet.created_at]]

\* derive(Deserialize) of Wallet: a skipped field takes its default (None),
\* a missing Option field is None, every other field is required
Wallet_from_slice(bytes) ==
    IF /\ bytes.kind = "json"
       /\ {"mnemonic", "address", "derivation_path", "network", "created_at"}
              \subseteq DOMAIN bytes.doc
    THEN Ok(Wallet(bytes.doc.mnemonic,
                   None,
                   bytes.doc.address,
                   bytes.doc.derivation_path,
                   bytes.doc.network,
                   IF "alias" \in DOMAIN bytes.doc THEN bytes.doc.alias ELSE None,
                   bytes.doc.created_at))
    ELSE Err("serde_json::Error")

----------------------------------------------------------------------------
(* CryptoService, src/src/services/crypto.rs                               *)

\* one primitive call of a run, and whether it succeeded
Call(name, ok) == [call |-> name, ok |-> ok]

\* what a call of encrypt_wallet / decrypt_wallet leaves behind: its
\* result, the primitive calls it made in order, and the content of its
\* key_bytes buffer when it returns or unwinds
Return(result, events, key_bytes) ==
    [result |-> result, events |-> events, key_bytes |-> key_bytes]

\* CryptoService::derive_key_argon2: the result and the output buffer.
\* Params::new rejects time < 1, parallelism < 1 and memory < 8 * parallelism;
\* hash_password_into rejects a salt shorter than 8 bytes.
derive_key_argon2(password, salt, memory, iterations, parallelism, output) ==
    IF memory < 8 \/ memory < 8 * parallelism \/ iterations < 1 \/ parallelism < 1
    THEN [result |-> Err(KdfFailed("Invalid Argon2 parameters")), output |-> output]
    ELSE IF salt.len < 8
    THEN [result |-> Err(KdfFailed("Argon2 key failed")), output |-> output]
    ELSE [result |-> Ok(<<>>),
          output |-> [kind |-> "argon2id", len |-> output.len, password |-> password,
                      salt |-> salt, memory |-> memory, time |-> iterations,
                      parallelism |-> parallelism]]

\* pbkdf2_hmac::<Sha256>(password, salt, rounds, &mut output)
pbkdf2_hmac(password, salt, rounds, output) ==
    [kind |-> "pbkdf2-hmac-sha256", len |-> output.len, password |-> password,
     salt |-> salt, rounds |-> rounds]

\* compute_mac with the tag not bound to the key
compute_mac_unkeyed(key, ciphertext, nonce) ==
    Ok([kind |-> "hmac-sha256", len |-> 32, key |-> ZeroBytes(KEY_LENGTH),
        data |-> Stream(Parts(ciphertext) \o Parts(nonce))])

\* CryptoService::compute_mac: HMAC-SHA256 takes a key of any length; the
\* tag covers the bytes fed by mac.update(ciphertext), then
\* mac.update(nonce), as one stream
compute_mac(key, ciphertext, nonce) ==
    Ok([kind |-> "hmac-sha256", len |-> 32, key |-> key,
        data |-> Stream(Parts(ciphertext) \o Parts(nonce))])

\* Aes256Gcm::new_from_slice: the key must have 32 bytes
Aes256Gcm_new_from_slice(key) ==
    IF key.len = 32 THEN Ok(key) ELSE Err("InvalidLength")

\* Nonce::from_slice for Aes256Gcm: panics unless the slice has 12 bytes
Nonce_from_slice_panics(nonce_bytes) == ByteLen(nonce_bytes) # GCM_NONCE_SIZE

\* cipher.encrypt(nonce, plaintext)
Aes256Gcm_encrypt(key, nonce, plaintext) ==
    Ok([kind |-> "aes-256-gcm", key |-> key, nonce |-> nonce, plaintext |-> plaintext])

\* cipher.decrypt(nonce, ciphertext): the tag verifies only for the key and
\* nonce the ciphertext was made with
Aes256Gcm_decrypt(key, nonce, ciphertext) ==
    IF /\ ciphertext.kind = "aes-256-gcm"
       /\ ciphertext.key = key
       /\ ciphertext.nonce = nonce
    THEN Ok(ciphertext.plaintext)
    ELSE Err("aead::Error")

\* the value of kdf_params in encrypt_wallet once its if/else has run
encrypt_wallet_kdf_params(use_argon2, config, salt) ==
    IF use_argon2
    THEN KdfParams_Argon2(KEY_LENGTH, config[1], config[2], config[3], HexEncode(salt))
    ELSE KdfParams_Pbkdf2(KEY_LENGTH, PBKDF2_ITERATIONS, "hmc-sha256", HexEncode(salt))

\* CryptoService::encrypt_wallet; salt_id and nonce_id name the bytes the
\* random source returns, now is the clock reading of Keystore::new
encrypt_wallet(wallet, password, use_argon2, salt_id, nonce_id, now) ==
    LET wallet_data == Wallet_to_vec(wallet)
        salt == RandBytes(SALT_LENGTH, salt_id)
        nonce_bytes == RandBytes(NONCE_LENGTH, nonce_id)
        key_zero == ZeroBytes(KEY_LENGTH)
        config == get_argon2_config(FALSE)
        kdf == IF use_argon2
               THEN derive_key_argon2(password, salt, config[1], config[2], config[3], key_zero)
               ELSE [result |-> Ok(<<>>),
                     output |-> pbkdf2_hmac(password, salt, PBKDF2_ITERATIONS, key_zero)]
        kdf_call == IF use_argon2 THEN "derive_key_argon2" ELSE "pbkdf2_hmac"
        kdf_params == encrypt_wallet_kdf_params(use_argon2, config, salt)
        key_bytes == kdf.output
        cipher == Aes256Gcm_new_from_slice(key_bytes)
        ciphertext == Aes256Gcm_encrypt(key_bytes, nonce_bytes, wallet_data)
        mac == compute_mac(key_bytes, ciphertext.value, nonce_bytes)
        e1 == <<Call("to_vec", TRUE), Call("fill_salt", TRUE), Call("fill_nonce", TRUE)>>
        e2 == Append(e1, Call(kdf_call, IsOk(kdf.result)))
        e3 == Append(e2, Call("Aes256Gcm::new_from_slice", IsOk(cipher)))
        e4 == Append(e3, Call("Nonce::from_slice", ~Nonce_from_slice_panics(nonce_bytes)))
        e5 == Append(e4, Call("cipher.encrypt", IsOk(ciphertext)))
        e6 == Append(e5, Call("compute_mac", IsOk(mac)))
        e7 == Append(e6, Call("zeroize", TRUE))
    IN  IF IsErr(kdf.result) THEN Return(kdf.result, e2, key_bytes)
        ELSE IF IsErr(cipher)
        THEN Return(Err(KdfFailed("AES cipher creation failed")), e3, key_bytes)
        ELSE IF Nonce_from_slice_panics(nonce_bytes)
        THEN Return(Panic("Nonce::from_slice"), e4, key_bytes)
        ELSE IF IsErr(ciphertext)
        THEN Return(Err(DecryptionFailed("Encryption failed")), e5, key_bytes)
        ELSE IF IsErr(mac) THEN Return(mac, e6, key_bytes)
        ELSE Return(Ok(Keystore_new(wallet.alias, wallet.address, wallet.network,
                                    ciphertext.value, salt, nonce_bytes, mac.value,
                                    kdf_params, now)),
                    e7, ZeroBytes(key_bytes.len))

\* the match of decrypt_wallet with the output sized by the persisted dklen
decrypt_derive_key_dklen(kdf_params, password, salt, key_bytes) ==
    IF kdf_params.shape = "Argon2"
    THEN derive_key_argon2(password, salt, kdf_params.memory, kdf_params.time,
                           kdf_params.parallelism, ZeroBytes(kdf_params.dklen))
    ELSE [result |-> Ok(<<>>),
          output |-> pbkdf2_hmac(password, salt, kdf_params.c, ZeroBytes(kdf_params.dklen))]

\* the match on keystore.kdf_params() in decrypt_wallet: the shape alone
\* selects the algorithm
decrypt_derive_key(kdf_params, password, salt, key_bytes) ==
    IF kdf_params.shape = "Argon2"
    THEN derive_key_argon2(password, salt, kdf_params.memory, kdf_params.time,
                           kdf_params.parallelism, key_bytes)
    ELSE [result |-> Ok(<<>>),
          output |-> pbkdf2_hmac(password, salt, kdf_params.c, key_bytes)]

\* the comparison with its outcome ignored
mac_mismatch_ignored(expected_mac, stored_mac) == FALSE

\* the comparison `expected_mac != keystore.mac()?`
mac_mismatch(expected_mac, stored_mac) == expected_mac # stored_mac

\* decrypt_wallet from the MAC verification on
decrypt_verified(keystore, key_bytes, ciphertext, nonce_bytes, events) ==
    LET expected_mac == compute_mac(key_bytes, ciphertext, nonce_bytes)
        stored_mac == Keystore_mac(keystore)
        cipher == Aes256Gcm_new_from_slice(key_bytes)
        decrypted_data == Aes256Gcm_decrypt(key_bytes, nonce_bytes, ciphertext)
        wallet == Wallet_from_slice(decrypted_data.value)
        e1 == Append(events, Call("compute_mac", IsOk(expected_mac)))
        e2 == Append(e1, Call("keystore.mac", IsOk(stored_mac)))
        e3 == Append(e2, Call("mac_compare", expected_mac.value = stored_mac.value))
        e4 == Append(e3, Call("Aes256Gcm::new_from_slice", IsOk(cipher)))
        e5 == Append(e4, Call("Nonce::from_slice", ~Nonce_from_slice_panics(nonce_bytes)))
        e6 == Append(e5, Call("cipher.decrypt", IsOk(decrypted_data)))
        e7 == Append(e6, Call("zeroize", TRUE))
        e8 == Append(e7, Call("from_slice", IsOk(wallet)))
    IN  IF IsErr(expected_mac) THEN Return(expected_mac, e1, key_bytes)
        ELSE IF IsErr(stored_mac) THEN Return(stored_mac, e2, key_bytes)
        ELSE IF mac_mismatch(expected_mac.value, stored_mac.value)
        THEN Return(Err(DecryptionFailed("Mac verified failed")), e3, key_bytes)
        ELSE IF IsErr(cipher)
        THEN Return(Err(KdfFailed("AES cipher creation failed")), e4, key_bytes)
        ELSE IF Nonce_from_slice_panics(nonce_bytes)
        THEN Return(Panic("Nonce::from_slice"), e5, key_bytes)
        ELSE IF IsErr(decrypted_data)
        THEN Return(Err(DecryptionFailed("Decryption failed: aead::Error")), e6, key_bytes)
        ELSE IF IsErr(wallet)
        THEN Return(Err(DataCorruption("Failed to parse wallet JSON")), e8,
                    ZeroBytes(key_bytes.len))
        ELSE Return(Ok(wallet.value), e8, ZeroBytes(key_bytes.len))

\* CryptoService::decrypt_wallet
decrypt_wallet(keystore, password) ==
    LET salt == Keystore_salt(keystore)
        nonce_bytes == Keystore_nonce(keystore)
        ciphertext == Keystore_encrypted_data(keystore)
        key_zero == ZeroBytes(KEY_LENGTH)
        kdf == decrypt_derive_key(keystore.crypto.kdfparams, password, salt.value, key_zero)
        kdf_call == IF keystore.crypto.kdfparams.shape = "Argon2"
                    THEN "derive_key_argon2" ELSE "pbkdf2_hmac"
        e1 == <<Call("keystore.salt", IsOk(salt))>>
        e2 == Append(e1, Call("keystore.nonce", IsOk(nonce_bytes)))
        e3 == Append(e2, Call("keystore.encrypted_data", IsOk(ciphertext)))
        e4 == Append(e3, Call(kdf_call, IsOk(kdf.result)))
    IN  IF IsErr(salt) THEN Return(salt, e1, NoBuffer)
        ELSE IF IsErr(nonce_bytes) THEN Return(nonce_bytes, e2, NoBuffer)
        ELSE IF IsErr(ciphertext) THEN Return(ciphertext, e3, NoBuffer)
        ELSE IF IsErr(kdf.result) THEN Return(kdf.result, e4, kdf.output)
        ELSE decrypt_verified(keystore, kdf.output, ciphertext.value, nonce_bytes.value, e4)

----------------------------------------------------------------------------
(* Keystore JSON and loading.                                              *)

\* the field sets serde requires of the JSON object of each struct
KeystoreFields == {"version", "metadata", "crypto"}
MetadataFields == {"alias", "address", "created_at", "network", "keystore_type"}
CryptoFields == {"cipher", "ciphertext", "cipherparams", "kdf", "kdfparams", "mac"}
Argon2Fields == {"dklen", "memory", "time", "parallelism", "salt"}
Pbkdf2Fields == {"dklen", "c", "prf", "salt"}

\* Serialize of the untagged KdfParams: the fields of the variant, no tag
KdfParams_serialize(kp) == [f \in DOMAIN kp \ {"shape"} |-> kp[f]]

\* Deserialize of the untagged KdfParams: the first variant whose fields are
\* all present, Argon2 tried first; unknown fields are ignored
KdfParams_deserialize(obj) ==
    IF Argon2Fields \subseteq DOMAIN obj
    THEN Ok(KdfParams_Argon2(obj.dklen, obj.memory, obj.time, obj.parallelism, obj.salt))
    ELSE IF Pbkdf2Fields \subseteq DOMAIN obj
    THEN Ok(KdfParams_Pbkdf2(obj.dklen, obj.c, obj.prf, obj.salt))
    ELSE Err("data did not match any variant of untagged enum KdfParams")

\* serde_json::to_string_pretty(&keystore)
Keystore_serialize(self) ==
    [kind |-> "json",
     doc |-> [self EXCEPT !.crypto.kdfparams = KdfParams_serialize(@)]]

\* from_str choosing the variant of kdfparams by the kdf name
Keystore_deserialize_by_kdf_name(text) ==
    IF text.kind # "json" THEN Err("expected value")
    ELSE IF ~(KeystoreFields \subseteq DOMAIN text.doc) THEN Err("missing field")
    ELSE IF ~(MetadataFields \ {"alias"} \subseteq DOMAIN text.doc.metadata)
    THEN Err("missing field")
    ELSE IF ~(CryptoFields \subseteq DOMAIN text.doc.crypto) THEN Err("missing field")
    ELSE LET obj == text.doc.crypto.kdfparams
             kp == IF text.doc.crypto.kdf = "argon2id"
                   THEN IF Argon2Fields \subseteq DOMAIN obj
                        THEN Ok(KdfParams_Argon2(obj.dklen, obj.memory, obj.time,
                                                 obj.parallelism, obj.salt))
                        ELSE Err("missing field")
                   ELSE IF Pbkdf2Fields \subseteq DOMAIN obj
                        THEN Ok(KdfParams_Pbkdf2(obj.dklen, obj.c, obj.prf, obj.salt))
                        ELSE Err("missing field")
         IN
         IF IsErr(kp) THEN kp
         ELSE Ok([version |-> text.doc.version,
                  metadata |-> [alias |-> IF "alias" \in DOMAIN text.doc.metadata
                                          THEN text.doc.metadata.alias ELSE None,
                                address |-> text.doc.metadata.address,
                                created_at |-> text.doc.metadata.created_at,
                                network |-> text.doc.metadata.network,
                                keystore_type |-> text.doc.metadata.keystore_type],
                  crypto |-> [cipher |-> text.doc.crypto.cipher,
                              ciphertext |-> text.doc.crypto.ciphertext,
                              cipherparams |-> [iv |-> text.doc.crypto.cipherparams.iv],
                              kdf |-> text.doc.crypto.kdf,
                              kdfparams |-> kp.value,
                              mac |-> text.doc.crypto.mac]])

\* serde_json::from_str::<Keystore>(text)
Keystore_deserialize(text) ==
    IF text.kind # "json" THEN Err("expected value")
    ELSE IF ~(KeystoreFields \subseteq DOMAIN text.doc) THEN Err("missing field")
    ELSE IF ~(MetadataFields \ {"alias"} \subseteq DOMAIN text.doc.metadata)
    THEN Err("missing field")
    ELSE IF ~(CryptoFields \subseteq DOMAIN text.doc.crypto) THEN Err("missing field")
    ELSE LET kp == KdfParams_deserialize(text.doc.crypto.kdfparams) IN
         IF IsErr(kp) THEN kp
         ELSE Ok([version |-> text.doc.version,
                  metadata |-> [alias |-> IF "alias" \in DOMAIN text.doc.metadata
                                          THEN text.doc.metadata.alias ELSE None,
                                address |-> text.doc.metadata.address,
                                created_at |-> text.doc.metadata.created_at,
                                network |-> text.doc.metadata.network,
                                keystore_type |-> text.doc.metadata.keystore_type],
                  crypto |-> [cipher |-> text.doc.crypto.cipher,
                              ciphertext |-> text.doc.crypto.ciphertext,
                              cipherparams |-> [iv |-> text.doc.crypto.cipherparams.iv],
                              kdf |-> text.doc.crypto.kdf,
                              kdfparams |-> kp.value,
                              mac |-> text.doc.crypto.mac]])

\* Keystore::to_json
to_json(self) == Ok(Keystore_serialize(self))

\* Keystore::from_json
from_json(json) ==
    LET keystore == Keystore_deserialize(json)
        valid == Keystore_validate(keystore.value)
        e1 == <<Call("from_str", IsOk(keystore))>>
        e2 == Append(e1, Call("validate", IsOk(valid)))
    IN  IF IsErr(keystore)
        THEN Return(Err(InvalidKeystoreSchema("Json serialization failed", "unknow")),
                    e1, NoBuffer)
        ELSE IF IsErr(valid) THEN Return(valid, e2, NoBuffer)
        ELSE Return(Ok(keystore.value), e2, NoBuffer)

\* no file at the path
NoFile == [kind |-> "absent"]

\* load_keystore returning the parsed keystore without validating it
load_keystore_unvalidated(file) ==
    LET keystore == Keystore_deserialize(file)
        e1 == <<Call("read_to_string", file # NoFile)>>
        e2 == Append(e1, Call("from_str", IsOk(keystore)))
    IN  IF file = NoFile
        THEN Return(Err(DataCorruption("Failed to read keystore file")), e1, NoBuffer)
        ELSE IF IsErr(keystore)
        THEN Return(Err(DataCorruption("Failed to parse keystore JSON")), e2, NoBuffer)
        ELSE Return(Ok(keystore.value), e2, NoBuffer)

\* CryptoService::load_keystore; file is the content at the path
load_keystore(file) ==
    LET keystore == Keystore_deserialize(file)
        valid == Keystore_validate(keystore.value)
        e1 == <<Call("read_to_string", file # NoFile)>>
        e2 == Append(e1, Call("from_str", IsOk(keystore)))
        e3 == Append(e2, Call("validate", IsOk(valid)))
    IN  IF file = NoFile
        THEN Return(Err(DataCorruption("Failed to read keystore file")), e1, NoBuffer)
        ELSE IF IsErr(keystore)
        THEN Return(Err(DataCorruption("Failed to parse keystore JSON")), e2, NoBuffer)
        ELSE IF IsErr(valid) THEN Return(valid, e3, NoBuffer)
        ELSE Return(Ok(keystore.value), e3, NoBuffer)

\* WalletManager::load_wallet
load_wallet(file, password) ==
    LET keystore == load_keystore(file)
        wallet == decrypt_wallet(keystore.result.value, password)
    IN  IF ~IsOk(keystore.result) THEN keystore
        ELSE Return(wallet.result, keystore.events \o wallet.events, wallet.key_bytes)

----------------------------------------------------------------------------
(* MnemonicService, src/src/services/mnemonic.rs                           *)

\* config::is_supported_word_count
is_supported_word_count(count) ==
    \E i \in DOMAIN SUPPORTED_WORD_COUNTS : SUPPORTED_WORD_COUNTS[i] = count

\* entropy_bits_for_word_count with the two sizes exchanged
entropy_bits_for_word_count_swapped(count) ==
    IF count = 12 THEN Some(ENTROPY_BITS_24)
    ELSE IF count = 24 THEN Some(ENTROPY_BITS_12)
    ELSE None

\* config::entropy_bits_for_word_count
entropy_bits_for_word_count(count) ==
    IF count = 12 THEN Some(ENTROPY_BITS_12)
    ELSE IF count = 24 THEN Some(ENTROPY_BITS_24)
    ELSE None

\* Mnemonic::from_entropy: 16, 20, 24, 28 or 32 bytes of entropy; the
\* phrase has (bits + bits / 32) / 11 words
Mnemonic_from_entropy(entropy) ==
    IF entropy.len \in {16, 20, 24, 28, 32}
    THEN Ok([entropy |-> entropy,
             words |-> (entropy.len * 8 + (entropy.len * 8) \div 32) \div 11])
    ELSE Err("BadEntropyBitCount")

\* a phrase: a text of `count` whitespace-separated words; `known` says
\* that every word is in the English word list, `checksum` that the last
\* word carries the checksum of the entropy the words encode; `empty` says
\* that the text has no character at all
Phrase(count, known, checksum, entropy) ==
    [count |-> count, known |-> known, checksum |-> checksum, entropy |-> entropy,
     empty |-> FALSE]

\* "".to_string()
EmptyPhrase ==
    [count |-> 0, known |-> TRUE, checksum |-> TRUE, entropy |-> ZeroBytes(0),
     empty |-> TRUE]

\* Mnemonic::to_string: the words of the entropy, with its checksum
Mnemonic_to_string(mnemonic) == Phrase(mnemonic.words, TRUE, TRUE, mnemonic.entropy)

\* Mnemonic::from_str: 12, 15, 18, 21 or 24 words, all of the word list,
\* with a matching checksum
Mnemonic_from_str(s) ==
    IF s.count < 12 \/ s.count > 24 \/ s.count % 3 # 0 THEN Err("BadWordCount")
    ELSE IF ~s.known THEN Err("UnknownWord")
    ELSE IF ~s.checksum THEN Err("InvalidChecksum")
    ELSE Ok([entropy |-> s.entropy, words |-> s.count])

\* SecureMnemonic::new
SecureMnemonic_new(phrase) == [phrase |-> phrase]

\* SecureMnemonic::word_count
SecureMnemonic_word_count(self) == self.phrase.count

\* validate without the second look at the word count
MnemonicService_validate_parse_only(mnemonic_str) ==
    LET mnemonic == Mnemonic_from_str(mnemonic_str)
        e1 == <<Call("Mnemonic::from_str", IsOk(mnemonic))>>
    IN  IF IsErr(mnemonic)
        THEN Return(Err(InvalidMnemonic(mnemonic.error,
                                        "Verify the mnemonic phrase has the correct number of words (12 or 24) and all words are from the BIP39 wordlist.")),
                    e1, NoBuffer)
        ELSE Return(Ok(SecureMnemonic_new(Mnemonic_to_string(mnemonic.value))), e1, NoBuffer)

\* MnemonicService::validate; the word count is cast to u8 before the test
MnemonicService_validate(mnemonic_str) ==
    LET mnemonic == Mnemonic_from_str(mnemonic_str)
        word_count == mnemonic_str.count
        supported == is_supported_word_count(word_count % 256)
        e1 == <<Call("Mnemonic::from_str", IsOk(mnemonic))>>
        e2 == Append(e1, Call("is_supported_word_count", supported))
    IN  IF IsErr(mnemonic)
        THEN Return(Err(InvalidMnemonic(mnemonic.error,
                                        "Verify the mnemonic phrase has the correct number of words (12 or 24) and all words are from the BIP39 wordlist.")),
                    e1, NoBuffer)
        ELSE IF ~supported
        THEN Return(Err(InvalidMnemonic(<<"Unsupported word count: ", word_count>>,
                                        "Use 12 or 24 words")),
                    e2, NoBuffer)
        ELSE Return(Ok(SecureMnemonic_new(Mnemonic_to_string(mnemonic.value))), e2, NoBuffer)

\* MnemonicService::generate; entropy_id names the bytes the random source
\* returns.  key_bytes of the Return is the entropy buffer at exit.
MnemonicService_generate(word_count, entropy_id) ==
    LET entropy_bits == entropy_bits_for_word_count(word_count)
        entropy == RandBytes(entropy_bits[1] \div 8, entropy_id)
        mnemonic == Mnemonic_from_entropy(entropy)
        e1 == <<Call("is_supported_word_count", is_supported_word_count(word_count))>>
        e2 == Append(e1, Call("entropy_bits_for_word_count", entropy_bits # None))
        e3 == Append(e2, Call("fill_bytes", TRUE))
        e4 == Append(e3, Call("Mnemonic::from_entropy", IsOk(mnemonic)))
        e5 == Append(e4, Call("zeroize", TRUE))
    IN  IF ~is_supported_word_count(word_count)
        THEN Return(Err(InvalidAddressFormat(<<"Unsupported word count: ", word_count>>,
                                             "Use 12 or 24 words")),
                    e1, NoBuffer)
        ELSE IF entropy_bits = None
        THEN Return(Err(InvalidMnemonic(<<"Cannot determinate entropy for words", word_count>>,
                                        "Use 12 or 24 words!")),
                    e2, NoBuffer)
        ELSE IF IsErr(mnemonic)
        THEN Return(Err(InvalidMnemonic(mnemonic.error,
                                        "Ensure system has adequate entropy sources")),
                    e4, entropy)
        ELSE Return(Ok(SecureMnemonic_new(Mnemonic_to_string(mnemonic.value))),
                    e5, ZeroBytes(entropy.len))

----------------------------------------------------------------------------
(* Wallet construction and address derivation, src/src/models/wallet.rs,   *)
(* src/src/utils.rs                                                        *)

\* str::strip_prefix("0x").unwrap_or(s)
strip_prefix_0x(s) ==
    IF StartsWith(s, <<"0", "x">>) THEN SubSeq(s, 3, Len(s)) ELSE s

\* chars().all(|c| c.is_ascii_hexdigit())
all_ascii_hexdigit(s) == \A i \in DOMAIN s : s[i] \in HexChars

\* validate_private_key accepting every text
validate_private_key_skipped(key) == Ok(<<>>)

\* utils::validate_private_key
validate_private_key(key) ==
    LET private_key == strip_prefix_0x(key) IN
    IF Len(private_key) # 64
    THEN Err(Validation_InvalidAddressFormat(key, "64 hexadecimal characters"))
    ELSE IF ~all_ascii_hexdigit(private_key)
    THEN Err(Validation_InvalidAddressFormat(key, "hexadecimal only"))
    ELSE Ok(<<>>)

\* str::parse::<LocalWallet>: the text, after an optional 0x, is the hex of
\* 32 bytes that are a secp256k1 scalar: not zero and below the group order
\* (the order begins with ffffffff ffffffff ffffffff fffffffe, so a text of
\* 64 times f lies above it)
LocalWallet_from_str(src) ==
    LET hex == strip_prefix_0x(src) IN
    IF Len(hex) % 2 # 0 \/ ~all_ascii_hexdigit(hex) THEN Err("HexError")
    ELSE IF Len(hex) # 64 THEN Err("HexError")
    ELSE IF (\A i \in DOMAIN hex : hex[i] = "0")
            \/ (\A i \in DOMAIN hex : hex[i] \in {"f", "F"})
    THEN Err("EcdsaError")
    ELSE Ok([kind |-> "signing-key", len |-> 32, secret |-> [hex |-> hex]])

\* format!("{}/{}", self.derivation_path, index): the base, a slash, the
\* index in decimal
format_path(derivation_path, index) == <<derivation_path, index>>

\* the path MnemonicBuilder uses when none is given: m/44'/60'/0'/0/0
MnemonicBuilder_default_path == format_path(DEFAULT_DERIVATION_PATH, 0)

\* MnemonicBuilder::derivation_path: the text parses as a BIP32 path when
\* every component between the slashes is a number, optionally hardened
DerivationPath_from_str(path) ==
    IF path[1] \in {"m/44'/60'/0'/0", "m/44'/60'/1'/0"} THEN Ok(path)
    ELSE Err("Bip32Error")

\* MnemonicBuilder::build: the phrase must be an English BIP39 mnemonic;
\* the signing key is derived from its seed along the path
MnemonicBuilder_build(phrase, path) ==
    IF IsErr(Mnemonic_from_str(phrase)) THEN Err("MnemonicError")
    ELSE Ok([kind |-> "signing-key", len |-> 32,
             secret |-> [entropy |-> phrase.entropy, path |-> path]])

\* the secret of the known vector: the mnemonic of 128 zero bits of entropy
\* (abandon x 11, about) on the path m/44'/60'/0'/0/0
VectorSecret == [entropy |-> ZeroBytes(16), path |-> MnemonicBuilder_default_path]

\* the 20 bytes of the address of the known vector, one hex digit each
VectorH160 ==
    <<9, 8, 5, 8, 14, 15, 15, 13, 2, 3, 2, 11, 4, 0, 3, 3, 14, 4, 7, 13,
      9, 0, 0, 0, 3, 13, 4, 1, 14, 12, 3, 4, 14, 12, 10, 14, 13, 10, 9, 4>>

\* wallet.address(): the 20 bytes of the address of a signing key, one hex
\* digit each.  Keccak-256 and secp256k1 are not computed: the address of
\* the known vector is its real one, every other address is a stand-in
\* fixed by the secret.
LocalWallet_address(signer) ==
    IF signer.secret = VectorSecret THEN VectorH160
    ELSE LET seed == IF "path" \in DOMAIN signer.secret
                     THEN signer.secret.path[2] + signer.secret.entropy.len
                     ELSE Len(signer.secret.hex)
         IN  [i \in 1..40 |-> (seed + i) % 16]

LowerHexDigits ==
    <<"0", "1", "2", "3", "4", "5", "6", "7", "8", "9", "a", "b", "c", "d", "e", "f">>

\* format!("{:?}", address) of an H160: 0x and the 40 digits in lower case
Debug_H160(h) == <<"0", "x">> \o [i \in 1..40 |-> LowerHexDigits[h[i] + 1]]

\* Wallet::from_mnemonic
Wallet_from_mnemonic(mnemonic, network, alias, now) ==
    LET bip_mnemonic == Mnemonic_from_str(mnemonic)
        wallet == MnemonicBuilder_build(mnemonic, MnemonicBuilder_default_path)
        e1 == <<Call("Mnemonic::from_str", IsOk(bip_mnemonic))>>
        e2 == Append(e1, Call("MnemonicBuilder::build", IsOk(wallet)))
    IN  IF IsErr(bip_mnemonic)
        THEN Return(Err(InvalidMnemonic(bip_mnemonic.error,
                                        "Ensure the mnemonic is valid and follows BIP39 standards")),
                    e1, NoBuffer)
        ELSE IF IsErr(wallet)
        THEN Return(Err(AddressGenerationFailed(wallet.error)), e2, NoBuffer)
        ELSE Return(Ok(Wallet(mnemonic, Some(wallet.value),
                              Debug_H160(LocalWallet_address(wallet.value)),
                              DEFAULT_DERIVATION_PATH, network, alias, now)),
                    e2, NoBuffer)

\* Wallet::from_private_key
Wallet_from_private_key(private_key, network, alias, now) ==
    LET valid == validate_private_key(private_key)
        key_str == strip_prefix_0x(private_key)
        wallet == LocalWallet_from_str(key_str)
        e1 == <<Call("validate_private_key", IsOk(valid))>>
        e2 == Append(e1, Call("parse::<LocalWallet>", IsOk(wallet)))
    IN  IF IsErr(valid) THEN Return(valid, e1, NoBuffer)
        ELSE IF Len(key_str) # 64
        THEN Return(Err(InvalidPrivateKey(<<"Expected 64 hex characters, got ", Len(key_str)>>,
                                          "64 hex characters (with or without 0x prefix)")),
                    e1, NoBuffer)
        ELSE IF IsErr(wallet)
        THEN Return(Err(InvalidPrivateKey(wallet.error, "valid secp256k1 private key")),
                    e2, NoBuffer)
        ELSE Return(Ok(Wallet(EmptyPhrase, Some(wallet.value),
                              Debug_H160(LocalWallet_address(wallet.value)),
                              DEFAULT_DERIVATION_PATH, network, alias, now)),
                    e2, NoBuffer)

\* Wallet::has_mnemonic
has_mnemonic(self) == ~self.mnemonic.empty

\* struct DerivedAddress
DerivedAddress(address, index, derivation_path) ==
    [address |-> address, index |-> index, derivation_path |-> derivation_path]

\* Wallet::derive_address past the test for an empty mnemonic
derive_address_build(self, index) ==
    LET derivation_path == format_path(self.derivation_path, index)
        path == DerivationPath_from_str(derivation_path)
        wallet == MnemonicBuilder_build(self.mnemonic, derivation_path)
        e1 == <<Call("DerivationPath::from_str", IsOk(path))>>
        e2 == Append(e1, Call("MnemonicBuilder::build", IsOk(wallet)))
    IN  IF IsErr(path)
        THEN Return(Err(InvalidDerivationPath(derivation_path, "valid BIP44 derivation path")),
                    e1, NoBuffer)
        ELSE IF IsErr(wallet)
        THEN Return(Err(AddressGenerationFailed(wallet.error)), e2, NoBuffer)
        ELSE Return(Ok(DerivedAddress(Debug_H160(LocalWallet_address(wallet.value)),
                                      index, derivation_path)),
                    e2, NoBuffer)

\* derive_address without the test for an empty mnemonic
derive_address_unguarded(self, index) == derive_address_build(self, index)

\* derive_address with the index of the path one too high
derive_address_next_index(self, index) ==
    [derive_address_build(self, index + 1) EXCEPT
        !.result = IF IsOk(@) THEN Ok([@.value EXCEPT !.index = index]) ELSE @]

\* Wallet::derive_address
derive_address(self, index) ==
    IF self.mnemonic.empty
    THEN Return(Err(KdfFailed("Cannot derive addresses from private key only wallet")),
                <<>>, NoBuffer)
    ELSE derive_address_build(self, index)

\* WalletManager::import_from_private_key
import_from_private_key(config, private_key, now) ==
    Wallet_from_private_key(private_key, config.network, None, now)

\* WalletManager::import_from_mnemoic
import_from_mnemoic(config, mnemonic_str, now) ==
    LET mnemonic == MnemonicService_validate(mnemonic_str)
        wallet == Wallet_from_mnemonic(mnemonic.result.value.phrase, config.network, None, now)
    IN  IF IsErr(mnemonic.result) THEN mnemonic
        ELSE Return(wallet.result, mnemonic.events \o wallet.events, NoBuffer)

\* WalletConfig::default, the network
WalletConfig_default == [network |-> "mainnet"]

----------------------------------------------------------------------------
(* Validation utilities and Address, src/src/utils.rs,                     *)
(* src/src/models/address.rs.  Texts are sequences of single characters;   *)
(* a u32 is the pair <<high half, low half>> of its 16-bit halves.         *)

DigitChars == <<"0", "1", "2", "3", "4", "5", "6", "7", "8", "9">>

\* u32 from a number below 65536
U32(n) == <<0, n>>

\* one step of the decimal parser: 10 * value + digit, outside U32 on overflow
U32_push(value, digit) ==
    LET lo == value[2] * 10 + digit IN
    <<value[1] * 10 + lo \div 65536, lo % 65536>>

RECURSIVE parse_digits(_, _)
parse_digits(s, value) ==
    IF s = <<>> THEN Ok(value)
    ELSE IF \A d \in 1..10 : DigitChars[d] # Head(s) THEN Err("InvalidDigit")
    ELSE LET next == U32_push(value, (CHOOSE d \in 1..10 : DigitChars[d] = Head(s)) - 1)
         IN  IF next[1] >= 65536 THEN Err("PosOverflow")
             ELSE parse_digits(Tail(s), next)

\* str::parse::<u32>: one leading "+" is accepted, "-" is not, then one or
\* more decimal digits of a value up to 4294967295
parse_u32(s) ==
    IF s = <<>> THEN Err("Empty")
    ELSE IF s = <<"+">> \/ s = <<"-">> THEN Err("InvalidDigit")
    ELSE IF Head(s) = "+" THEN parse_digits(Tail(s), U32(0))
    ELSE parse_digits(s, U32(0))

\* u32::to_string: the decimal digits, no leading zero
RECURSIVE u32_to_string(_)
u32_to_string(value) ==
    LET rest == (value[1] % 10) * 65536 + value[2]
        quotient == <<value[1] \div 10, rest \div 10>>
        digit == <<DigitChars[(rest % 10) + 1]>>
    IN  IF quotient = U32(0) THEN digit ELSE u32_to_string(quotient) \o digit

\* str::ends_with
EndsWith(s, suffix) ==
    /\ Len(s) >= Len(suffix)
    /\ SubSeq(s, Len(s) - Len(suffix) + 1, Len(s)) = suffix

\* str::split('/'): the pieces between the slashes, empty ones included
RECURSIVE split_slash(_)
split_slash(s) ==
    IF \A i \in DOMAIN s : s[i] # "/" THEN <<s>>
    ELSE LET at == CHOOSE i \in DOMAIN s : s[i] = "/" /\ \A j \in 1..(i - 1) : s[j] # "/"
         IN  <<SubSeq(s, 1, at - 1)>> \o split_slash(SubSeq(s, at + 1, Len(s)))

\* the loop body of validate_derivation_path on one component
validate_component(path, component) ==
    LET num_str == IF EndsWith(component, <<"'">>)
                   THEN SubSeq(component, 1, Len(component) - 1)
                   ELSE component
    IN  IF component = <<>>
        THEN Err(Validation_InvalidAddressFormat(path, "non-empty path components"))
        ELSE IF IsErr(parse_u32(num_str))
        THEN Err(Validation_InvalidAddressFormat(path, "numberic path components"))
        ELSE Ok(<<>>)

\* utils::validate_derivation_path: the error of the first bad component
validate_derivation_path(path) ==
    LET components == split_slash(SubSeq(path, 3, Len(path)))
        bad == {i \in DOMAIN components :
                   IsErr(validate_component(path, components[i]))}
    IN  IF ~StartsWith(path, <<"m", "/">>)
        THEN Err(Validation_InvalidAddressFormat(path, "path string starting with 'm/'"))
        ELSE IF bad # {}
        THEN validate_component(path, components[CHOOSE i \in bad : \A j \in bad : i <= j])
        ELSE Ok(<<>>)

\* utils::validate_ethereum_address
validate_ethereum_address(address) ==
    LET addr == strip_prefix_0x(address) IN
    IF Len(addr) # 40
    THEN Err(Validation_InvalidAddressFormat(address, "40 hexadecimal characters"))
    ELSE IF ~all_ascii_hexdigit(addr)
    THEN Err(Validation_InvalidAddressFormat(address, "hexadecimal characters only"))
    ELSE Ok(<<>>)

SUPPORTED_NETWORKS == <<"mainnet", "sepolia", "goerli", "holesky">>

\* config::is_supported_network
is_supported_network(network) ==
    \E i \in DOMAIN SUPPORTED_NETWORKS : SUPPORTED_NETWORKS[i] = network

\* Path::components(): the pieces between the slashes; empty pieces and,
\* after the first piece, "." are skipped, a leading slash is the root
path_components(path) ==
    LET pieces == split_slash(path)
    IN  SelectSeq([i \in DOMAIN pieces |->
                     IF pieces[i] = <<>> THEN <<>>
                     ELSE IF pieces[i] = <<".">> /\ i > 1 THEN <<>>
                     ELSE pieces[i]],
                  LAMBDA c : c # <<>>)

\* std::path::Component::ParentDir
ParentDir == <<".", ".">>

\* FilesystemError::PathTraversal
PathTraversal(path) == [domain |-> "Filesystem", variant |-> "PathTraversal", path |-> path]

\* utils::validate_file_path
validate_file_path(path) ==
    IF \E i \in DOMAIN path_components(path) : path_components(path)[i] = ParentDir
    THEN Err(PathTraversal(path))
    ELSE Ok(<<>>)

\* ValidationError::IntegrityCheckFailed
IntegrityCheckFailed(data_type, details) ==
    [domain |-> "Validation", variant |-> "IntegrityCheckFailed",
     data_type |-> data_type, details |-> details]

\* struct Address
Address(address, index, derivation_path, network) ==
    [address |-> address, index |-> index, derivation_path |-> derivation_path,
     network |-> network, balance |-> None, nonce |-> None, label |-> None]

\* Address::new
Address_new(address, network, index, derivation_path) ==
    LET valid == validate_ethereum_address(address)
        path == validate_derivation_path(derivation_path[1])
    IN  IF IsErr(valid) THEN valid
        ELSE IF ~is_supported_network(network)
        THEN Err(Validation_InvalidAddressFormat(network, "one of : SUPPORTED_NETWORKS"))
        ELSE IF derivation_path # None /\ IsErr(path) THEN path
        ELSE Ok(Address(address, index, derivation_path, network))

\* Address::derive
Address_derive(address, network, index, derivation_path) ==
    Address_new(address, network, Some(index), Some(derivation_path))

\* Address::validate
Address_validate(self) ==
    LET valid == validate_ethereum_address(self.address)
        path == validate_derivation_path(self.derivation_path[1])
    IN  IF IsErr(valid) THEN valid
        ELSE IF ~is_supported_network(self.network)
        THEN Err(Validation_InvalidAddressFormat(self.address, "one of SUPPORTED_NETWORKS"))
        ELSE IF self.derivation_path = None THEN Ok(<<>>)
        ELSE IF IsErr(path) THEN path
        ELSE IF self.index = None
        THEN Err(IntegrityCheckFailed("address", "Derivation path provided without index"))
        ELSE IF ~EndsWith(self.derivation_path[1], <<"/">> \o u32_to_string(self.index[1]))
        THEN Err(IntegrityCheckFailed("address", "Index doesn't match derivation path"))
        ELSE Ok(<<>>)

----------------------------------------------------------------------------
(* Saving a wallet and the create and import commands,                     *)
(* src/src/services/crypto.rs, src/src/services/walletmanager.rs,          *)
(* src/src/main.rs.  `file` is the file at the save target; `env` holds    *)
(* what the surroundings supply to one run: the bytes of the random        *)
(* source, the clock, the umask of the process and whether the directory   *)
(* can be written.                                                         *)

PasswordMismatch == [domain |-> "UserInput", variant |-> "PasswordMismatch"]
WeakPassword(requirements) ==
    [domain |-> "Authentication", variant |-> "WeakPassword", requirements |-> requirements]
\* WalletError::Io, from std::io::Error
Io(details) == [domain |-> "Io", variant |-> "Io", details |-> details]
DirectoryNotAccessible(path) ==
    [domain |-> "Filesystem", variant |-> "DirectoryNotAccessible", path |-> path]

MIN_PASSWORD_LENGTH == 8
KEYSTORE_FILE_PERMISSIONS == 384
\* the mode File::create asks for, 0o666
CREATE_MODE == 438

\* CryptoService::validate_password: a password shorter than the minimum
\* is weak
validate_password(password) ==
    IF Len(password) < MIN_PASSWORD_LENGTH
    THEN Err(WeakPassword(<<"minimum length">>))
    ELSE Ok(<<>>)

\* mode & !umask over the permission bits, bit by bit from `bit` upwards
RECURSIVE apply_umask(_, _, _)
apply_umask(mode, umask, bit) ==
    IF bit > 256 THEN 0
    ELSE (IF (mode \div bit) % 2 = 1 /\ (umask \div bit) % 2 = 0 THEN bit ELSE 0)
         + apply_umask(mode, umask, bit * 2)

\* std::fs::write(path, contents): File::create, which creates the file
\* with mode 0o666 less the umask or truncates an existing file and leaves
\* its mode alone, then write_all, which fails when the device is full and
\* leaves the truncated file behind
fs_write(file, contents, env) ==
    LET mode == IF file = NoFile THEN apply_umask(CREATE_MODE, env.umask, 1) ELSE file.mode
    IN  IF ~env.writable THEN [result |-> Err("io::Error"), file |-> file]
        ELSE IF ~env.space
        THEN [result |-> Err("io::Error"), file |-> [kind |-> "text", mode |-> mode]]
        ELSE [result |-> Ok(<<>>),
              file |-> [kind |-> contents.kind, doc |-> contents.doc, mode |-> mode]]

\* CryptoService::save_keystore: the outcome and the file afterwards
save_keystore(keystore, file, env) ==
    LET json == to_json(keystore)
        written == fs_write(file, json.value, env)
        e1 == <<Call("to_json", IsOk(json))>>
        e2 == Append(e1, Call("fs::write", IsOk(written.result)))
    IN  IF IsErr(json) THEN [out |-> Return(json, e1, NoBuffer), file |-> file]
        ELSE IF IsErr(written.result)
        THEN [out |-> Return(Err(DataCorruption("Failed to write keystore file")),
                             e2, NoBuffer),
              file |-> written.file]
        ELSE [out |-> Return(Ok(<<>>), e2, NoBuffer), file |-> written.file]

\* the continuation applied to a value that is computed once
Then(value, Continue(_)) == CHOOSE r \in {Continue(x) : x \in {value}} : TRUE

\* WalletManager::save_wallet
save_wallet(wallet, file, password, env) ==
    LET valid == validate_password(password)
        e1 == <<Call("validate_password", IsOk(valid))>>
    IN  IF IsErr(valid) THEN [out |-> Return(valid, e1, NoBuffer), file |-> file]
        ELSE Then(encrypt_wallet(wallet, password, TRUE, env.salt_id, env.nonce_id, env.now),
                  LAMBDA keystore :
                     LET e2 == Append(e1, Call("encrypt_wallet", IsOk(keystore.result)))
                     IN  IF ~IsOk(keystore.result)
                         THEN [out |-> Return(keystore.result, e2, keystore.key_bytes),
                               file |-> file]
                         ELSE Then(save_keystore(keystore.result.value, file, env),
                                   LAMBDA saved :
                                      [out |-> Return(saved.out.result,
                                                      Append(e2, Call("save_keystore",
                                                                      IsOk(saved.out.result))),
                                                      keystore.key_bytes),
                                       file |-> saved.file]))

\* config.wallets_path: ~/.web3wallet/wallets
WalletsPath ==
    <<"~", "/", ".", "w", "e", "b", "3", "w", "a", "l", "l", "e", "t", "/",
      "w", "a", "l", "l", "e", "t", "s">>

\* wallet_dir.join(format!("{}.json", filename)): an absolute name replaces
\* the directory
join_json(wallet_dir, filename) ==
    LET name == filename \o <<".", "j", "s", "o", "n">>
    IN  IF Head(name) = "/" THEN name ELSE wallet_dir \o <<"/">> \o name

\* the --save block with the comparison of the two passwords left out
save_prompted_unconfirmed(wallet, filename, typed, file, env) ==
    LET file_path == join_json(WalletsPath, filename)
        e2 == <<Call("get_password", typed.password # None),
                Call("get_password", typed.confirm # None)>>
        e3 == Append(e2, Call("create_dir_all", env.writable))
    IN  IF typed.password = None \/ typed.confirm = None
        THEN [out |-> Return(Err(Io("prompt")), e2, NoBuffer),
              file |-> file, target |-> None]
        ELSE IF ~env.writable
        THEN [out |-> Return(Err(DirectoryNotAccessible(WalletsPath)), e3, NoBuffer),
              file |-> file, target |-> None]
        ELSE Then(save_wallet(wallet, file, typed.password[1], env),
                  LAMBDA saved :
                     [out |-> Return(saved.out.result, e3 \o saved.out.events,
                                     saved.out.key_bytes),
                      file |-> saved.file, target |-> Some(file_path)])

\* the `if let Some(filename) = args.save` block of execute_create and of
\* excute_import; typed holds what the prompts return
save_prompted(wallet, filename, typed, file, env) ==
    LET file_path == join_json(WalletsPath, filename)
        e1 == <<Call("get_password", typed.password # None)>>
        e2 == Append(e1, Call("get_password", typed.confirm # None))
        e3 == Append(e2, Call("create_dir_all", env.writable))
    IN  IF typed.password = None
        THEN [out |-> Return(Err(Io("prompt")), e1, NoBuffer),
              file |-> file, target |-> None]
        ELSE IF typed.confirm = None
        THEN [out |-> Return(Err(Io("prompt")), e2, NoBuffer),
              file |-> file, target |-> None]
        ELSE IF typed.password # typed.confirm
        THEN [out |-> Return(Err(PasswordMismatch), e2, NoBuffer),
              file |-> file, target |-> None]
        ELSE IF ~env.writable
        THEN [out |-> Return(Err(DirectoryNotAccessible(WalletsPath)), e3, NoBuffer),
              file |-> file, target |-> None]
        ELSE Then(save_wallet(wallet, file, typed.password[1], env),
                  LAMBDA saved :
                     [out |-> Return(saved.out.result, e3 \o saved.out.events,
                                     saved.out.key_bytes),
                      file |-> saved.file, target |-> Some(file_path)])

\* WalletManager::create_wallet_with_network
create_wallet_with_network(word_count, network, env) ==
    Then(MnemonicService_generate(word_count, env.entropy_id),
         LAMBDA mnemonic :
            IF IsErr(mnemonic.result) THEN mnemonic
            ELSE Then(Wallet_from_mnemonic(mnemonic.result.value.phrase, network, None,
                                           env.now),
                      LAMBDA wallet :
                         Return(wallet.result, mnemonic.events \o wallet.events, NoBuffer)))

\* the command once its wallet is there: the --save block if a name was
\* given, the wallet's error otherwise
then_save(wallet, save, typed, file, env) ==
    IF IsErr(wallet.result) THEN [out |-> wallet, file |-> file, target |-> None]
    ELSE IF save = None
    THEN [out |-> Return(Ok(<<>>), wallet.events, NoBuffer), file |-> file, target |-> None]
    ELSE Then(save_prompted(wallet.result.value, save[1], typed, file, env),
              LAMBDA saved : [saved EXCEPT !.out.events = wallet.events \o @])

\* execute_create
execute_create(args, typed, file, env) ==
    Then(create_wallet_with_network(args.words, args.network, env),
         LAMBDA wallet : then_save(wallet, args.save, typed, file, env))

\* excute_import: --mnemonic, else --private-key, else the phrase typed at
\* the prompt
excute_import(args, typed, file, env) ==
    IF args.mnemonic # None
    THEN Then(import_from_mnemoic(WalletConfig_default, args.mnemonic[1], env.now),
              LAMBDA wallet : then_save(wallet, args.save, typed, file, env))
    ELSE IF args.private_key # None
    THEN Then(import_from_private_key(WalletConfig_default, args.private_key[1], env.now),
              LAMBDA wallet : then_save(wallet, args.save, typed, file, env))
    ELSE IF typed.mnemonic = None
    THEN [out |-> Return(Err(Io("prompt")), <<Call("get_password", FALSE)>>, NoBuffer),
          file |-> file, target |-> None]
    ELSE Then(import_from_mnemoic(WalletConfig_default, typed.mnemonic[1], env.now),
              LAMBDA wallet :
                 LET done == then_save(wallet, args.save, typed, file, env)
                 IN  [done EXCEPT !.out.events = <<Call("get_password", TRUE)>> \o @])

----------------------------------------------------------------------------
(* The derive command, src/src/main.rs.                                    *)

InvalidParameters(parameter, value, expected) ==
    [domain |-> "UserInput", variant |-> "InvalidParameters",
     parameter |-> parameter, value |-> value, expected |-> expected]

\* u32 + i for 0 <= i < 65536: the sum modulo 2^32, and whether the true
\* sum is outside u32
U32_add(value, i) ==
    LET low == value[2] + i
        high == value[1] + (low \div 65536)
    IN  [value |-> <<high % 65536, low % 65536>>, overflow |-> high >= 65536]

\* the index as derive_address is given it: an index from 2^31 on is
\* written as the index less 2^32
u32_index(value) ==
    IF value[1] < 32768 THEN value[1] * 65536 + value[2]
    ELSE (value[1] - 65536) * 65536 + value[2]

\* the wallet of the derive command: loaded from the file with the password
\* typed, or imported from the phrase typed
derive_wallet(args, typed, file, now) ==
    IF args.from_file # None
    THEN IF typed.password = None
         THEN Return(Err(Io("prompt")), <<Call("get_password", FALSE)>>, NoBuffer)
         ELSE Then(load_wallet(file, typed.password[1]),
                   LAMBDA loaded :
                      [loaded EXCEPT !.events = <<Call("get_password", TRUE)>> \o @])
    ELSE IF typed.mnemonic = None
         THEN Return(Err(Io("prompt")), <<Call("get_password", FALSE)>>, NoBuffer)
         ELSE Then(import_from_mnemoic(WalletConfig_default, typed.mnemonic[1], now),
                   LAMBDA imported :
                      [imported EXCEPT !.events = <<Call("get_password", TRUE)>> \o @])

\* the loop `for i in 0..args.count` of execute_derive from iteration i on;
\* start_index + i panics on overflow in a build with overflow checks and
\* wraps in one without
RECURSIVE derive_loop(_, _, _, _, _, _, _)
derive_loop(wallet, start_index, count, i, derived_addresses, events, overflow_checks) ==
    IF i >= count THEN Return(Ok(derived_addresses), events, NoBuffer)
    ELSE LET index == U32_add(start_index, i) IN
         IF index.overflow /\ overflow_checks
         THEN Return(Panic("attempt to add with overflow"), events, NoBuffer)
         ELSE Then(derive_address(wallet, u32_index(index.value)),
                   LAMBDA derived :
                      IF ~IsOk(derived.result)
                      THEN Return(derived.result,
                                  Append(events, Call("derive_address", FALSE)), NoBuffer)
                      ELSE derive_loop(wallet, start_index, count, i + 1,
                                       Append(derived_addresses,
                                              [index |-> index.value,
                                               derived |-> derived.result.value]),
                                       Append(events, Call("derive_address", TRUE)),
                                       overflow_checks))

\* execute_derive: the value of Ok is what the command prints
execute_derive(args, typed, file, now, overflow_checks) ==
    Then(derive_wallet(args, typed, file, now),
         LAMBDA wallet :
            IF ~IsOk(wallet.result) THEN wallet
            ELSE IF ~has_mnemonic(wallet.result.value)
            THEN Return(Err(InvalidParameters("wallet", "private key only",
                                              "HD wallet with mnemonic")),
                        wallet.events, NoBuffer)
            ELSE LET parsed == parse_u32(args.path)
                     start_index == IF IsOk(parsed) THEN parsed.value ELSE args.start_index
                 IN  Then(derive_loop(wallet.result.value, start_index, args.count, 0,
                                      <<>>, wallet.events, overflow_checks),
                          LAMBDA derived :
                             IF ~IsOk(derived.result) THEN derived
                             ELSE Return(Ok([base_address |-> wallet.result.value.address,
                                             base_path |-> wallet.result.value.derivation_path,
                                             count |-> args.count,
                                             start_index |-> start_index,
                                             addresses |-> derived.result.value]),
                                         derived.events, NoBuffer)))

----------------------------------------------------------------------------
(* Inputs: wallets, and the keystores a caller can hold.                   *)

AddrHexA == <<"0", "x">> \o Rep("a", 40)
AddrHexB == <<"0", "x">> \o Rep("9", 40)
\* 42 characters, prefix 0x, not hexadecimal
AddrNotHex == <<"0", "x">> \o Rep("z", 40)
AddrShort == <<"0", "x">> \o Rep("a", 39)
AddrNoPrefix == Rep("a", 42)

Clock == "2025-01-01T00:00:00+00:00"

\* the mnemonics of 128 and of 256 zero bits of entropy
VALID_MNEMONIC_12 == Phrase(12, TRUE, TRUE, ZeroBytes(16))
VALID_MNEMONIC_24 == Phrase(24, TRUE, TRUE, ZeroBytes(32))

\* private-key texts: 64 hex digits with and without 0x, and texts that
\* are not that
KeyHex == Rep("4", 64)
PrivateKeys ==
    {KeyHex,
     <<"0", "x">> \o KeyHex,
     <<"0", "X">> \o KeyHex,
     <<"0", "x", "0", "x">> \o Rep("4", 62),
     <<"i", "n", "v", "a", "l", "i", "d", "_", "k", "e", "y">>,
     <<>>,
     Rep("4", 63),
     Rep("4", 65),
     <<"0", "x">> \o Rep("4", 63),
     Rep("4", 63) \o <<"z">>,
     <<"0", "x">> \o Rep("z", 64),
     Rep("0", 64),
     <<"0", "x">> \o Rep("f", 64)}

Networks == {"mainnet", "sepolia"}

\* a wallet as Wallet::from_mnemonic builds it
WalletFromMnemonic ==
    Wallet_from_mnemonic(VALID_MNEMONIC_12, "mainnet", None, Clock).result.value

\* a wallet as Wallet::from_private_key builds it
WalletFromPrivateKey ==
    Wallet_from_private_key(<<"0", "x">> \o KeyHex, "sepolia", Some("savings"),
                            Clock).result.value

Wallets == {WalletFromMnemonic, WalletFromPrivateKey}

\* plaintexts found inside keystores: serialized wallets, and JSON that is
\* no wallet
NotAWallet == [kind |-> "json", doc |-> [address |-> AddrHexA]]
Plaintexts == {Wallet_to_vec(w) : w \in Wallets} \cup {NotAWallet}

\* the KDF parameters a writer persists for a shape
WriterKdfParams(shape, salt) ==
    IF shape = "Argon2"
    THEN KdfParams_Argon2(KEY_LENGTH, DEFAULT_ARGON2_MEMORY, DEFAULT_ARGON2_ITERATIONS,
                          DEFAULT_ARGON2_PARALLELISM, HexEncode(salt))
    ELSE KdfParams_Pbkdf2(KEY_LENGTH, PBKDF2_ITERATIONS, "hmac-sha256", HexEncode(salt))

\* a keystore in the format of encrypt_wallet, written under `password`
\* by a writer whose nonce has nonce_len bytes: the key is stretched from
\* the password and the persisted salt, the MAC is the HMAC under that key
Seal(wallet, plaintext, password, shape, nonce_len) ==
    LET salt == RandBytes(SALT_LENGTH, 1)
        nonce == RandBytes(nonce_len, 1)
        kdf_params == WriterKdfParams(shape, salt)
        key == decrypt_derive_key(kdf_params, password, salt, ZeroBytes(KEY_LENGTH)).output
        ciphertext == Aes256Gcm_encrypt(key, nonce, plaintext).value
        mac == compute_mac(key, ciphertext, nonce).value
    IN  Keystore_new(wallet.alias, wallet.address, wallet.network, ciphertext, salt,
                     nonce, mac, kdf_params, Clock)

\* hex text that does not decode
OddHex == [digits |-> "odd", clean |-> TRUE, bytes |-> ZeroBytes(0)]
DirtyHex == [digits |-> "even", clean |-> FALSE, bytes |-> ZeroBytes(0)]

\* the values a keystore field can be changed to after the keystore was
\* written (a file edited or damaged on disk), in a fixed order
AlteredValues(field) ==
    CASE field = "none" -> <<"none">>
      [] field = "version" -> <<"">>
      [] field = "address" -> <<AddrNotHex, AddrShort, AddrNoPrefix>>
      [] field = "network" -> <<"">>
      [] field = "cipher" -> <<"aes-128-ctr">>
      [] field = "kdf" -> <<"scrypt">>
      [] field = "ciphertext" ->
            [i \in 1..MaxRand |-> HexEncode(RandBytes(64, i))] \o <<OddHex, DirtyHex>>
      [] field = "iv" ->
            [i \in 1..(MaxRand - 1) |-> HexEncode(RandBytes(GCM_NONCE_SIZE, i + 1))]
            \o [i \in 1..(MaxRand - 1) |-> HexEncode(RandBytes(NONCE_LENGTH, i + 1))]
            \o <<OddHex, DirtyHex>>
      [] field = "mac" ->
            [i \in 1..MaxRand |-> HexEncode(RandBytes(32, i))] \o <<OddHex, DirtyHex>>
      [] field = "salt" ->
            [i \in 1..(MaxRand - 1) |-> HexEncode(RandBytes(SALT_LENGTH, i + 1))]
            \o <<HexEncode(RandBytes(4, 1)), DirtyHex>>
      [] field = "dklen" -> <<0, 64>>
      [] field = "memory" -> <<0, 1>>
      [] field = "time" -> <<0>>
      [] field = "parallelism" -> <<0>>
      [] field = "c" -> <<0, 1>>
      [] field = "boundary" -> <<1, -1>>

AlteredFields ==
    {"none", "version", "address", "network", "cipher", "kdf", "ciphertext", "iv",
     "mac", "salt", "dklen", "memory", "time", "parallelism", "c", "boundary"}

\* an alteration: a field and the position of its new value
Alterations ==
    UNION {{[field |-> f, n |-> i] : i \in 1..Len(AlteredValues(f))} : f \in AlteredFields}

AlteredValue(a) == AlteredValues(a.field)[a.n]

\* the keystore with n bytes moved from the end of the ciphertext to the
\* head of the IV (n > 0) or -n bytes from the head of the IV to the end of
\* the ciphertext (n < 0); a field that is not hex stays as it is
ShiftBoundary(ks, n) ==
    LET ciphertext == HexDecode(ks.crypto.ciphertext)
        iv == HexDecode(ks.crypto.cipherparams.iv)
    IN  IF ~IsOk(ciphertext) \/ ~IsOk(iv) THEN ks
        ELSE IF n > 0
        THEN [ks EXCEPT !.crypto.ciphertext = HexEncode(DropLast(ciphertext.value, n)),
                        !.crypto.cipherparams.iv =
                            HexEncode(Concat(TakeLast(ciphertext.value, n), iv.value))]
        ELSE [ks EXCEPT !.crypto.ciphertext =
                            HexEncode(Concat(ciphertext.value, TakeFirst(iv.value, -n))),
                        !.crypto.cipherparams.iv = HexEncode(DropFirst(iv.value, -n))]

\* the keystore with one field changed, or with the boundary between
\* ciphertext and IV moved
Alter(ks, a) ==
    CASE a.field = "none" -> ks
      [] a.field = "boundary" -> ShiftBoundary(ks, AlteredValue(a))
      [] a.field = "version" -> [ks EXCEPT !.version = AlteredValue(a)]
      [] a.field = "address" -> [ks EXCEPT !.metadata.address = AlteredValue(a)]
      [] a.field = "network" -> [ks EXCEPT !.metadata.network = AlteredValue(a)]
      [] a.field = "cipher" -> [ks EXCEPT !.crypto.cipher = AlteredValue(a)]
      [] a.field = "kdf" -> [ks EXCEPT !.crypto.kdf = AlteredValue(a)]
      [] a.field = "ciphertext" -> [ks EXCEPT !.crypto.ciphertext = AlteredValue(a)]
      [] a.field = "iv" -> [ks EXCEPT !.crypto.cipherparams.iv = AlteredValue(a)]
      [] a.field = "mac" -> [ks EXCEPT !.crypto.mac = AlteredValue(a)]
      [] OTHER -> IF a.field \in DOMAIN ks.crypto.kdfparams
                  THEN [ks EXCEPT !.crypto.kdfparams[a.field] = AlteredValue(a)]
                  ELSE ks

\* what a writer encrypts: a wallet, and the plaintext it serializes to
\* (or, for a foreign writer, a plaintext that is no wallet)
Contents ==
    {[wallet |-> w, plaintext |-> Wallet_to_vec(w)] : w \in Wallets}
    \cup {[wallet |-> WalletFromPrivateKey, plaintext |-> NotAWallet]}

\* the keystores written under a password, each with its provenance
SealedKeystores ==
    {[keystore |-> Seal(c.wallet, c.plaintext, p, shape, n),
      original |-> Seal(c.wallet, c.plaintext, p, shape, n),
      by |-> "writer", wallet |-> c.wallet, password |-> p, altered |-> <<>>] :
        c \in Contents, p \in Passwords,
        shape \in {"Argon2", "Pbkdf2"}, n \in {GCM_NONCE_SIZE, NONCE_LENGTH}}

AlterSource(src, a) ==
    [src EXCEPT !.keystore = Alter(@, a),
                !.altered = IF a.field = "none" THEN @ ELSE Append(@, a.field)]

\* keystores as written, or with one field changed afterwards
HeldKeystores == {AlterSource(src, a) : src \in SealedKeystores, a \in Alterations}

\* keystores with up to two fields changed, over one wallet and password
TwiceAltered ==
    {AlterSource(AlterSource(src, a), b) :
        src \in {s \in SealedKeystores :
                    /\ s.password = "correct horse"
                    /\ s.keystore.crypto.cipherparams.iv
                           = HexEncode(RandBytes(GCM_NONCE_SIZE, 1))
                    /\ s.wallet = WalletFromMnemonic},
        a \in Alterations, b \in Alterations}

\* the keystore files found at the path: serialized keystores, text that
\* is no JSON, and documents whose kdfparams object has the fields of both
\* shapes or of neither
BothShapes(ks) ==
    [kind |-> "json",
     doc |-> [ks EXCEPT !.crypto.kdfparams =
                 [dklen |-> KEY_LENGTH, memory |-> DEFAULT_ARGON2_MEMORY,
                  time |-> DEFAULT_ARGON2_ITERATIONS,
                  parallelism |-> DEFAULT_ARGON2_PARALLELISM,
                  c |-> PBKDF2_ITERATIONS, prf |-> "hmac-sha256",
                  salt |-> ks.crypto.kdfparams.salt]]]

NeitherShape(ks) ==
    [kind |-> "json",
     doc |-> [ks EXCEPT !.crypto.kdfparams =
                 [dklen |-> KEY_LENGTH, salt |-> ks.crypto.kdfparams.salt]]]

Files ==
    {Keystore_serialize(src.keystore) : src \in HeldKeystores}
    \cup {BothShapes(src.keystore) : src \in SealedKeystores}
    \cup {NeitherShape(src.keystore) : src \in SealedKeystores}
    \cup {[kind |-> "text"]}

----------------------------------------------------------------------------
(* The state machine.                                                      *)

Init ==
    /\ disk = NoFile
    /\ last = [op |-> "none"]

\* no call is outstanding: calls are made one at a time
Idle == last.op = "none"

\* the caller is done with the outcome of the last call
Finish ==
    /\ ~Idle
    /\ last' = [op |-> "none"]
    /\ UNCHANGED disk

\* the keystore the last call returned, if it was encrypt_wallet
Produced ==
    IF last.op = "encrypt_wallet" /\ IsOk(last.out.result)
    THEN {[keystore |-> last.out.result.value, original |-> last.out.result.value,
           by |-> "encrypt_wallet",
           wallet |-> last.wallet, password |-> last.password, altered |-> <<>>]}
    ELSE {}

EncryptWallet ==
    /\ Idle
    /\ \E wallet \in Wallets, password \in Passwords, use_argon2 \in BOOLEAN,
          salt_id \in RandIds, nonce_id \in RandIds :
            last' = [op |-> "encrypt_wallet", wallet |-> wallet, password |-> password,
                     use_argon2 |-> use_argon2,
                     kdf_params |-> encrypt_wallet_kdf_params(
                                        use_argon2, get_argon2_config(FALSE),
                                        RandBytes(SALT_LENGTH, salt_id)),
                     out |-> encrypt_wallet(wallet, password, use_argon2, salt_id,
                                            nonce_id, Clock)]
    /\ UNCHANGED disk

\* the keystores a caller can pass on: one obtained from outside, or the
\* one encrypt_wallet has just returned to it
Holding(obtained) == IF Idle THEN obtained ELSE Produced

DecryptWallet ==
    /\ \E src \in Holding(HeldKeystores), password \in Passwords :
            last' = [op |-> "decrypt_wallet", source |-> src, password |-> password,
                     out |-> decrypt_wallet(src.keystore, password)]
    /\ UNCHANGED disk

Validate ==
    /\ \E src \in Holding(TwiceAltered) :
            last' = [op |-> "validate", source |-> src,
                     out |-> Return(Keystore_validate(src.keystore), <<>>, NoBuffer)]
    /\ UNCHANGED disk

\* the values a caller passes for the numeric KDF parameters
KdfNumbers == {0, 1, DEFAULT_ARGON2_MEMORY, PBKDF2_ITERATIONS}

\* the keystores the three constructors build for one wallet, each with
\* the constructor that built it
Constructed(wallet, encrypted_data, salt, nonce, mac) ==
    {[ctor |-> "with_pbkdf2",
      keystore |-> Keystore_with_pbkdf2(wallet.alias, wallet.address, wallet.network,
                                        encrypted_data, salt, nonce, mac, c, Clock)] :
        c \in KdfNumbers}
    \cup {[ctor |-> "with_argon2",
           keystore |-> Keystore_with_argon2(wallet.alias, wallet.address, wallet.network,
                                             encrypted_data, salt, nonce, mac, m, t, 1,
                                             Clock)] :
             m \in KdfNumbers, t \in {0, 1}}
    \cup {[ctor |-> "new",
           keystore |-> Keystore_new(wallet.alias, wallet.address, wallet.network,
                                     encrypted_data, salt, nonce, mac, kp, Clock)] :
             kp \in {KdfParams_Argon2(0, 0, 0, 0, HexEncode(salt)),
                     KdfParams_Argon2(KEY_LENGTH, DEFAULT_ARGON2_MEMORY,
                                      DEFAULT_ARGON2_ITERATIONS,
                                      DEFAULT_ARGON2_PARALLELISM, HexEncode(salt)),
                     KdfParams_Pbkdf2(0, 0, "", HexEncode(salt)),
                     KdfParams_Pbkdf2(KEY_LENGTH, PBKDF2_ITERATIONS, "hmac-sha1",
                                      HexEncode(salt))}}

\* a call of Keystore::new, with_pbkdf2 or with_argon2
NewKeystore ==
    /\ Idle
    /\ \E wallet \in Wallets, id \in RandIds :
         \E built \in Constructed(wallet, RandBytes(64, id), RandBytes(SALT_LENGTH, id),
                                   RandBytes(GCM_NONCE_SIZE, id), RandBytes(32, id)) :
            last' = [op |-> "keystore_new", ctor |-> built.ctor,
                     out |-> Return(Ok(built.keystore), <<>>, NoBuffer)]
    /\ UNCHANGED disk

Generate ==
    /\ Idle
    /\ \E word_count \in 0..MaxWordCount, entropy_id \in RandIds :
            last' = [op |-> "generate", word_count |-> word_count,
                     out |-> MnemonicService_generate(word_count, entropy_id)]
    /\ UNCHANGED disk

Next ==
    \/ EncryptWallet
    \/ DecryptWallet
    \/ Validate
    \/ Generate
    \/ NewKeystore
    \/ Finish

Spec == Init /\ [][Next]_vars

\* the keystore file is written, replaced or damaged outside the program
ExternalWrite ==
    /\ Idle
    /\ \E file \in Files : disk' = file
    /\ UNCHANGED last

LoadKeystore ==
    /\ Idle
    /\ last' = [op |-> "load_keystore", out |-> load_keystore(disk)]
    /\ UNCHANGED disk

\* the keystores a writer hands to to_json: as written, or with the kdf
\* name changed
JsonWriters ==
    {AlterSource(src, a) :
        src \in SealedKeystores, a \in {[field |-> "none", n |-> 1], [field |-> "kdf", n |-> 1]}}

\* the JSON text from_json is given: the file at the path or, while there
\* is none, a document from elsewhere with the KDF fields of both shapes; or
\* the text to_json has just returned
JsonInHand ==
    IF Idle
    THEN IF disk = NoFile
         THEN {[json |-> BothShapes(src.keystore), by |-> "outside", written |-> None] :
                  src \in SealedKeystores}
         ELSE {[json |-> disk, by |-> "disk", written |-> None]}
    ELSE IF last.op = "to_json" /\ IsOk(last.out.result)
    THEN {[json |-> last.out.result.value, by |-> "to_json", written |-> Some(last.keystore)]}
    ELSE {}

FromJson ==
    /\ \E src \in JsonInHand :
            last' = [op |-> "from_json", json |-> src.json, by |-> src.by,
                     written |-> src.written, out |-> from_json(src.json)]
    /\ UNCHANGED disk

\* the keystore to_json is called on: one a writer built, or the one
\* from_json has just returned
KeystoreInHand ==
    IF Idle
    THEN {[keystore |-> src.keystore, read_from |-> None] : src \in JsonWriters}
    ELSE IF last.op = "from_json" /\ IsOk(last.out.result)
    THEN {[keystore |-> last.out.result.value,
           read_from |-> Some([json |-> last.json, by |-> last.by])]}
    ELSE {}

ToJson ==
    /\ \E src \in KeystoreInHand :
            last' = [op |-> "to_json", keystore |-> src.keystore, read_from |-> src.read_from,
                     out |-> Return(to_json(src.keystore), <<>>, NoBuffer)]
    /\ UNCHANGED disk

LoadWallet ==
    /\ Idle
    /\ \E password \in Passwords :
            last' = [op |-> "load_wallet", password |-> password,
                     out |-> load_wallet(disk, password)]
    /\ UNCHANGED disk

NextFiles ==
    \/ ExternalWrite
    \/ LoadKeystore
    \/ FromJson
    \/ LoadWallet
    \/ Finish

SpecFiles == Init /\ [][NextFiles]_vars

\* phrases handed in from outside: word counts on both sides of every
\* limit of the parser, and 268, which is 12 as a u8
PhraseCounts == {0, 3, 11, 12, 13, 15, 18, 21, 24, 27, 268}

ExternalPhrases ==
    UNION {{Phrase(n, known, checksum, ZeroBytes((n \div 3) * 4)),
            Phrase(n, known, checksum, RandBytes((n \div 3) * 4, 1))} :
              n \in PhraseCounts, known \in BOOLEAN, checksum \in BOOLEAN}
    \cup {EmptyPhrase}

\* the phrase the last call returned, if it was generate
Generated ==
    IF last.op = "generate" /\ IsOk(last.out.result)
    THEN {[phrase |-> last.out.result.value.phrase, by |-> "generate",
           word_count |-> last.word_count]}
    ELSE {}

ValidateMnemonic ==
    /\ \E src \in IF Idle
                   THEN {[phrase |-> p, by |-> "outside", word_count |-> p.count] :
                            p \in ExternalPhrases}
                   ELSE Generated :
            last' = [op |-> "validate_mnemonic", source |-> src,
                     out |-> MnemonicService_validate(src.phrase)]
    /\ UNCHANGED disk

FromMnemonic ==
    /\ Idle
    /\ \E mnemonic \in ExternalPhrases, network \in Networks :
            last' = [op |-> "from_mnemonic", mnemonic |-> mnemonic, network |-> network,
                     out |-> Wallet_from_mnemonic(mnemonic, network, None, Clock)]
    /\ UNCHANGED disk

FromPrivateKey ==
    /\ Idle
    /\ \E private_key \in PrivateKeys, network \in Networks :
            last' = [op |-> "from_private_key", private_key |-> private_key,
                     network |-> network,
                     out |-> Wallet_from_private_key(private_key, network, None, Clock)]
    /\ UNCHANGED disk

\* the import command with --private-key: the wallet, or the error as
\* main reports it
ImportFromPrivateKey ==
    /\ Idle
    /\ \E private_key \in PrivateKeys :
            LET out == import_from_private_key(WalletConfig_default, private_key, Clock) IN
            last' = [op |-> "import_from_private_key", private_key |-> private_key,
                     out |-> out,
                     reported |-> IF IsErr(out.result) THEN Some(Display(out.result.error))
                                  ELSE None]
    /\ UNCHANGED disk

\* wallets as decrypt_wallet returns them: the wallets that were saved,
\* and wallets whose saved fields are not what the constructors write
LoadedWallets ==
    {Wallet_from_slice(Wallet_to_vec(w)).value : w \in Wallets}
    \cup {[WalletFromMnemonic EXCEPT !.master_private_key = None, !.derivation_path = d] :
             d \in {"m/44'/60'/1'/0", "", "m/44'/60'/x"}}
    \cup {[WalletFromMnemonic EXCEPT !.master_private_key = None, !.mnemonic = m] :
             m \in {VALID_MNEMONIC_24, Phrase(15, TRUE, TRUE, ZeroBytes(20)),
                    Phrase(12, TRUE, FALSE, ZeroBytes(16)),
                    Phrase(0, TRUE, TRUE, ZeroBytes(0))}}

\* the wallet the last call returned or worked on
WalletInHand ==
    IF last.op \in {"from_mnemonic", "from_private_key"} /\ IsOk(last.out.result)
    THEN {last.out.result.value}
    ELSE IF last.op = "derive_address" THEN {last.wallet}
    ELSE {}

\* derive_address on the wallet in hand; a call that follows another call
\* on the same wallet keeps the index and outcome of that one
DeriveAddress ==
    /\ \E wallet \in (IF Idle THEN LoadedWallets ELSE WalletInHand), index \in 0..MaxIndex :
            last' = [op |-> "derive_address", wallet |-> wallet, index |-> index,
                     built_by |-> IF Idle THEN "decrypt_wallet"
                                  ELSE IF last.op = "derive_address" THEN last.built_by
                                  ELSE last.op,
                     before |-> IF last.op = "derive_address"
                                THEN Some([index |-> last.index, out |-> last.out])
                                ELSE None,
                     out |-> derive_address(wallet, index)]
    /\ UNCHANGED disk

NextWallet ==
    \/ Generate
    \/ ValidateMnemonic
    \/ FromMnemonic
    \/ FromPrivateKey
    \/ ImportFromPrivateKey
    \/ DeriveAddress
    \/ Finish

SpecWallet == Init /\ [][NextWallet]_vars

\* derivation paths handed in: those of the validator's test, values at the
\* limits of u32, signs, doubled hardening markers and empty components
PathBase == <<"m", "/", "4", "4", "'", "/", "6", "0", "'", "/", "0", "'", "/", "0">>

DerivationPaths ==
    {PathBase, <<>>}
    \cup {PathBase \o suffix : suffix \in
            {<<"/", "0">>,
             <<"/", "5">>,
             <<"/", "1", "2", "3">>,
             <<"/", "4", "2", "9", "4", "9", "6", "7", "2", "9", "5">>,
             <<"/", "4", "2", "9", "4", "9", "6", "7", "2", "9", "6">>,
             <<"/">>,
             <<"/", "+", "5">>}}
    \cup {<<"i", "n", "v", "a", "l", "i", "d", "_", "p", "a", "t", "h">>,
          <<"/", "4", "4", "'", "/", "6", "0", "'", "/", "0", "'", "/", "0">>,
          <<"4", "4", "'", "/", "6", "0", "'", "/", "0", "'", "/", "0">>,
          <<"m", "/", "/", "4", "4", "'", "/", "6", "0", "'", "/", "0", "'", "/", "0">>,
          <<"m", "/", "4", "4", "'", "/", "6", "0", "'", "/", "/", "0", "'", "/", "0">>,
          <<"m", "/", "+", "4", "4", "'", "/", "6", "0", "'", "/", "0", "'", "/", "0">>,
          <<"m", "/", "-", "4", "4">>,
          <<"m", "/", "4", "4", "'", "'">>,
          <<"m", "/", "'">>,
          <<"m", "/">>,
          <<"m">>,
          <<"m", "/", "4", "a">>,
          <<"m", "/", "+">>,
          <<"m", "/", "0", "0", "7">>,
          <<"m", "/", "1", "5">>,
          <<"M", "/", "4", "4">>}

AddressTexts == {AddrHexA, Rep("a", 40), AddrNotHex, AddrShort}
AddressNetworks == {"mainnet", "holesky", "ropsten", ""}
AddressIndices == {U32(0), U32(5), <<65535, 65535>>}

ValidateDerivationPath ==
    /\ Idle
    /\ \E path \in DerivationPaths :
            last' = [op |-> "validate_derivation_path", path |-> path,
                     out |-> Return(validate_derivation_path(path), <<>>, NoBuffer)]
    /\ UNCHANGED disk

AddressNew ==
    /\ Idle
    /\ \E address \in AddressTexts, network \in AddressNetworks,
          index \in {None} \cup {Some(i) : i \in AddressIndices},
          derivation_path \in {None} \cup {Some(p) : p \in DerivationPaths} :
            last' = [op |-> "address_new",
                     out |-> Return(Address_new(address, network, index, derivation_path),
                                    <<>>, NoBuffer)]
    /\ UNCHANGED disk

AddressDerive ==
    /\ Idle
    /\ \E address \in AddressTexts, network \in AddressNetworks,
          index \in AddressIndices, derivation_path \in DerivationPaths :
            last' = [op |-> "address_derive",
                     out |-> Return(Address_derive(address, network, index, derivation_path),
                                    <<>>, NoBuffer)]
    /\ UNCHANGED disk

\* Address values read from outside (Address derives Deserialize)
ExternalAddresses ==
    {Address(address, index, derivation_path, network) :
        address \in AddressTexts, network \in AddressNetworks,
        index \in {None} \cup {Some(i) : i \in AddressIndices},
        derivation_path \in {None} \cup {Some(p) : p \in DerivationPaths}}

\* validate on an Address read from outside, or on the one the last call
\* of new or derive returned
AddressValidate ==
    /\ \E self \in IF Idle THEN ExternalAddresses
                   ELSE IF last.op \in {"address_new", "address_derive"}
                           /\ IsOk(last.out.result)
                   THEN {last.out.result.value}
                   ELSE {} :
            last' = [op |-> "address_validate", self |-> self,
                     built_by |-> IF Idle THEN "outside" ELSE last.op,
                     out |-> Return(Address_validate(self), <<>>, NoBuffer)]
    /\ UNCHANGED disk

NextAddress ==
    \/ ValidateDerivationPath
    \/ AddressNew
    \/ AddressDerive
    \/ AddressValidate
    \/ Finish

SpecAddress == Init /\ [][NextAddress]_vars


\* what the surroundings supply to one run
Envs ==
    {[salt_id |-> r, nonce_id |-> r, entropy_id |-> r, now |-> Clock,
      umask |-> umask, writable |-> writable, space |-> space] :
        r \in RandIds, umask \in {18, 63}, writable \in BOOLEAN, space \in BOOLEAN}

\* names given to --save: plain, with a parent-directory component, a
\* name of dots that is no such component, and an absolute one
SaveNames ==
    {<<"w">>, <<".", ".", "/", "e", "v", "i", "l">>, <<"a", "/", ".", ".", "/", "b">>,
     <<".", ".">>, <<"/", "t", "m", "p", "/", "x">>}

\* what the two password prompts return: a failed prompt, equal and
\* different passwords, a short one
TypedPasswords ==
    {[password |-> None, confirm |-> None],
     [password |-> Some("correct horse"), confirm |-> None],
     [password |-> Some("correct horse"), confirm |-> Some("correct horse")],
     [password |-> Some("correct horse"), confirm |-> Some("Tr0ub4dor")],
     [password |-> Some("short"), confirm |-> Some("short")],
     [password |-> Some("short"), confirm |-> Some("correct horse")]}

\* the keystores handed to save_keystore directly
SavedKeystores ==
    {Seal(WalletFromMnemonic, Wallet_to_vec(WalletFromMnemonic), "correct horse", shape, n) :
        shape \in {"Argon2", "Pbkdf2"}, n \in {GCM_NONCE_SIZE, NONCE_LENGTH}}

SaveKeystore ==
    /\ Idle
    /\ \E keystore \in SavedKeystores, env \in Envs :
            LET saved == save_keystore(keystore, disk, env) IN
            /\ last' = [op |-> "save_keystore", keystore |-> keystore, env |-> env,
                        before |-> disk, out |-> saved.out]
            /\ disk' = saved.file

SaveWallet ==
    /\ Idle
    /\ \E wallet \in Wallets, password \in {"correct horse", "short"}, env \in Envs :
            LET saved == save_wallet(wallet, disk, password, env) IN
            /\ last' = [op |-> "save_wallet", wallet |-> wallet, password |-> password,
                        env |-> env, before |-> disk, out |-> saved.out]
            /\ disk' = saved.file

ExecuteCreate ==
    /\ Idle
    /\ \E words \in {12, 24}, save \in {None} \cup {Some(n) : n \in SaveNames},
          passwords \in TypedPasswords, env \in Envs :
            LET args == [words |-> words, save |-> save, network |-> "mainnet"]
                typed == [password |-> passwords.password, confirm |-> passwords.confirm,
                          mnemonic |-> None]
                done == execute_create(args, typed, disk, env)
            IN  /\ last' = [op |-> "execute_create", args |-> args, typed |-> typed,
                            env |-> env, before |-> disk, out |-> done.out,
                            target |-> done.target]
                /\ disk' = done.file

\* the sources of the import command: at most one of --mnemonic and
\* --private-key; with neither, what the prompt for the phrase returns
ImportSources ==
    {[mnemonic |-> Some(m), private_key |-> None, typed |-> None] :
        m \in {VALID_MNEMONIC_12, Phrase(15, TRUE, TRUE, ZeroBytes(20))}}
    \cup {[mnemonic |-> None, private_key |-> Some(k), typed |-> None] :
             k \in {<<"0", "x">> \o KeyHex,
                    <<"i", "n", "v", "a", "l", "i", "d", "_", "k", "e", "y">>}}
    \cup {[mnemonic |-> None, private_key |-> None, typed |-> t] :
             t \in {None, Some(VALID_MNEMONIC_12), Some(VALID_MNEMONIC_24),
                    Some(Phrase(12, TRUE, FALSE, ZeroBytes(16))), Some(EmptyPhrase)}}

ExecuteImport ==
    /\ Idle
    /\ \E source \in ImportSources, save \in {None, Some(<<"w">>)},
          passwords \in TypedPasswords, env \in Envs :
            LET args == [mnemonic |-> source.mnemonic, private_key |-> source.private_key,
                         save |-> save]
                typed == [password |-> passwords.password, confirm |-> passwords.confirm,
                          mnemonic |-> source.typed]
                done == excute_import(args, typed, disk, env)
            IN  /\ last' = [op |-> "excute_import", args |-> args, typed |-> typed,
                            env |-> env, before |-> disk, out |-> done.out,
                            target |-> done.target]
                /\ disk' = done.file

ValidateFilePath ==
    /\ Idle
    /\ \E path \in SaveNames \cup {join_json(WalletsPath, n) : n \in SaveNames} :
            last' = [op |-> "validate_file_path", path |-> path,
                     out |-> Return(validate_file_path(path), <<>>, NoBuffer)]
    /\ UNCHANGED disk

NextSave ==
    \/ SaveKeystore
    \/ SaveWallet
    \/ ExecuteCreate
    \/ ExecuteImport
    \/ ValidateFilePath
    \/ ToJson
    \/ FromJson
    \/ Finish

SpecSave == Init /\ [][NextSave]_vars

\* the addresses the derive command is asked for at once
MaxCount == 3

\* the values of --path: the default-like path, numbers up to and past
\* u32::MAX, a number with a sign, and the empty text
DerivePaths ==
    {PathBase, <<"5">>, <<"+", "7">>, <<"-", "1">>, <<>>,
     <<"4", "2", "9", "4", "9", "6", "7", "2", "9", "5">>,
     <<"4", "2", "9", "4", "9", "6", "7", "2", "9", "4">>,
     <<"4", "2", "9", "4", "9", "6", "7", "2", "9", "6">>}

StartIndices == {U32(0), U32(2), U32(65535), <<65535, 65535>>}

\* keystore files that hold wallets: the two wallets, and a wallet whose
\* saved derivation path is no path
DeriveFiles ==
    {Keystore_serialize(Seal(w, Wallet_to_vec(w), "correct horse", "Pbkdf2", GCM_NONCE_SIZE)) :
        w \in Wallets \cup {[WalletFromMnemonic EXCEPT !.derivation_path = "m/44'/60'/x"]}}
    \cup {[kind |-> "text"]}

\* a keystore file is put at the path from outside
PlaceKeystore ==
    /\ Idle
    /\ \E file \in DeriveFiles : disk' = file
    /\ UNCHANGED last

\* what is typed at the prompt of the derive command
DeriveTyped ==
    {[password |-> p, mnemonic |-> m] :
        p \in {None, Some("correct horse")},
        m \in {None, Some(VALID_MNEMONIC_12), Some(Phrase(12, TRUE, FALSE, ZeroBytes(16)))}}

ExecuteDerive ==
    /\ Idle
    /\ \E path \in DerivePaths, start_index \in StartIndices, count \in 0..MaxCount,
          from_file \in {None, Some("wallet.json")}, typed \in DeriveTyped,
          overflow_checks \in BOOLEAN :
            LET args == [path |-> path, from_file |-> from_file, count |-> count,
                         start_index |-> start_index]
            IN  last' = [op |-> "execute_derive", args |-> args, typed |-> typed,
                         overflow_checks |-> overflow_checks,
                         out |-> execute_derive(args, typed, disk, Clock, overflow_checks)]
    /\ UNCHANGED disk

NextDerive ==
    \/ PlaceKeystore
    \/ ExecuteDerive
    \/ Finish

SpecDerive == Init /\ [][NextDerive]_vars

----------------------------------------------------------------------------
(* Properties.                                                             *)

Events == last.out.events
Result == last.out.result

\* some primitive call of the last call has this name
Called(name) == \E i \in DOMAIN Events : Events[i].call = name

MacVerifyFailed == Err(DecryptionFailed("Mac verified failed"))

\* the last call was decrypt_wallet, with the password the keystore was
\* written under
DecryptedWithOwnPassword ==
    /\ last.op = "decrypt_wallet"
    /\ last.password = last.source.password

\* the last call was decrypt_wallet on a keystore as it was written, with
\* a password other than the one it was written under
DecryptedWithOtherPassword ==
    /\ last.op = "decrypt_wallet"
    /\ last.source.altered = <<>>
    /\ last.password # last.source.password

\* C1: encrypt_wallet(wallet, password, use_argon2) returns a keystore, and
\* decrypt_wallet of that keystore with the same password succeeds and
\* returns a wallet with the address, network, mnemonic and alias of the
\* original wallet.
C1_RoundTrip ==
    /\ last.op = "encrypt_wallet" => IsOk(Result)
    /\ (DecryptedWithOwnPassword /\ last.source.by = "encrypt_wallet") =>
          /\ IsOk(Result)
          /\ Result.value.address = last.source.wallet.address
          /\ Result.value.network = last.source.wallet.network
          /\ Result.value.mnemonic = last.source.wallet.mnemonic
          /\ Result.value.alias = last.source.wallet.alias

\* C2: decrypt_wallet of a keystore written under password p, called with a
\* password q # p, fails with DecryptionFailed{"Mac verified failed"}: it
\* neither succeeds nor fails with any other error.
C2_WrongPassword == DecryptedWithOtherPassword => Result = MacVerifyFailed

C2_Witness ==
    /\ DecryptedWithOtherPassword
    /\ Called("mac_compare")
    /\ Result = MacVerifyFailed

\* C3: in every call of decrypt_wallet, AES-GCM decryption is invoked only
\* after the recomputed MAC was compared with the stored one and found
\* equal; after a comparison that found them different it is never invoked.
C3_MacBeforeGcm ==
    last.op = "decrypt_wallet" =>
        \A j \in DOMAIN Events :
            Events[j].call = "cipher.decrypt" =>
                /\ \E i \in 1..(j - 1) : Events[i] = Call("mac_compare", TRUE)
                /\ \A i \in 1..(j - 1) : Events[i] # Call("mac_compare", FALSE)

C3_Witness ==
    /\ last.op = "decrypt_wallet"
    /\ Called("cipher.decrypt")
    /\ \E i \in DOMAIN Events : Events[i] = Call("mac_compare", TRUE)

\* the primitive calls that stretch a key or decrypt
DecryptionCalls ==
    {"derive_key_argon2", "pbkdf2_hmac", "compute_mac", "Aes256Gcm::new_from_slice",
     "Nonce::from_slice", "cipher.decrypt"}

\* the file at the path parses as a keystore whose cipher name is not the
\* supported one, or whose ciphertext, IV or MAC is not hex
FileBreaksSchema ==
    /\ IsOk(Keystore_deserialize(disk))
    /\ LET ks == Keystore_deserialize(disk).value IN
          \/ ks.crypto.cipher # "aes-256-gcm"
          \/ ~IsOk(HexDecode(ks.crypto.ciphertext))
          \/ ~IsOk(HexDecode(ks.crypto.cipherparams.iv))
          \/ ~IsOk(HexDecode(ks.crypto.mac))

\* C4: load_keystore and from_json return a keystore only after validate()
\* succeeded on it; load_wallet stretches no key and decrypts nothing before
\* validate() succeeded; a file whose cipher name is unsupported or whose
\* ciphertext, IV or MAC is not hex is rejected with no key stretched and
\* nothing decrypted.
C4_ValidateFirst ==
    /\ (last.op \in {"load_keystore", "from_json"} /\ IsOk(Result)) =>
          /\ Events[Len(Events)] = Call("validate", TRUE)
          /\ IsOk(Keystore_validate(Result.value))
    /\ last.op = "load_wallet" =>
          \A j \in DOMAIN Events :
              Events[j].call \in DecryptionCalls =>
                  \E i \in 1..(j - 1) : Events[i] = Call("validate", TRUE)
    /\ (last.op \in {"load_keystore", "from_json", "load_wallet"} /\ FileBreaksSchema) =>
          /\ IsErr(Result)
          /\ Result.error.variant = "InvalidKeystoreSchema"
          /\ \A j \in DOMAIN Events : Events[j].call \notin DecryptionCalls

C4_Witness ==
    /\ last.op = "load_wallet"
    /\ FileBreaksSchema
    /\ Events[Len(Events)] = Call("validate", FALSE)
    /\ IsErr(Result)

\* C5: encrypt_wallet never panics, and decrypt_wallet never panics on a
\* keystore that passes validate(): each returns a value or an error.
C5_NoPanic ==
    /\ last.op = "encrypt_wallet" => ~IsPanic(Result)
    /\ (last.op = "decrypt_wallet" /\ IsOk(Keystore_validate(last.source.keystore))) =>
          ~IsPanic(Result)

\* C6: whenever encrypt_wallet or decrypt_wallet returns, with success or
\* with an error, the key buffer it derived holds zeros.
C6_KeyZeroed ==
    (/\ last.op \in {"encrypt_wallet", "decrypt_wallet"}
     /\ ~IsPanic(Result)
     /\ last.out.key_bytes # NoBuffer) =>
        last.out.key_bytes.kind = "zero"

\* "0x" followed by exactly 40 hexadecimal characters
IsHexAddress(address) ==
    /\ Len(address) = 42
    /\ address[1] = "0"
    /\ address[2] = "x"
    /\ \A i \in 3..42 : address[i] \in HexChars

\* C7: validate() rejects with InvalidKeystoreSchema every keystore whose
\* metadata address is not "0x" followed by exactly 40 hexadecimal
\* characters.
C7_AddressRejected ==
    (last.op = "validate" /\ ~IsHexAddress(last.source.keystore.metadata.address)) =>
        /\ IsErr(Result)
        /\ Result.error.variant = "InvalidKeystoreSchema"

\* the checks the claim C8 lists, in its order, each with the error of
\* validate() for it; the last two depend on the shape present
ListedChecks(ks) ==
    LET kp == ks.crypto.kdfparams
        argon2 == kp.shape = "Argon2"
    IN  << [holds |-> ks.version # "", error |-> "Missing version"],
           [holds |-> ks.metadata.network # "", error |-> "Missing network"],
           [holds |-> ks.crypto.cipher = "aes-256-gcm", error |-> "Unsupported cipher"],
           [holds |-> IsOk(HexDecode(ks.crypto.ciphertext)),
            error |-> "Invalid ciphertext hex"],
           [holds |-> IsOk(HexDecode(ks.crypto.cipherparams.iv)),
            error |-> "Invalid IV hex"],
           [holds |-> IsOk(HexDecode(ks.crypto.mac)), error |-> "Invalid MAC hex"],
           [holds |-> IsOk(HexDecode(kp.salt)),
            error |-> IF argon2 THEN "Invalid Argon2 salt hex"
                      ELSE "Invalid PBKDF2 salt hex"],
           [holds |-> IF argon2
                      THEN kp.dklen # 0 /\ kp.memory # 0 /\ kp.time # 0
                           /\ kp.parallelism # 0
                      ELSE kp.dklen # 0 /\ kp.c # 0,
            error |-> IF argon2 THEN "Invalid Argon2 parameters"
                      ELSE "Invalid PBKDF2 parameters"] >>

\* the same list with the address test of validate() (prefix "0x", 42
\* characters) in second place
ChecksWithAddress(ks) ==
    LET listed == ListedChecks(ks) IN
    <<listed[1],
      [holds |-> StartsWith(ks.metadata.address, <<"0", "x">>)
                 /\ Len(ks.metadata.address) = 42,
       error |-> "Invalid address format"]>>
    \o SubSeq(listed, 2, Len(listed))

\* the verdict a list of checks asks for: Ok when all hold, else
\* InvalidKeystoreSchema with the error of the first one that fails
Verdict(checks) ==
    IF \A i \in DOMAIN checks : checks[i].holds
    THEN Ok(<<>>)
    ELSE LET first == CHOOSE i \in DOMAIN checks :
                         /\ ~checks[i].holds
                         /\ \A j \in 1..(i - 1) : checks[j].holds
         IN  Err(InvalidKeystoreSchema(checks[first].error, "keystore"))

DecryptedDamaged ==
    /\ DecryptedWithOwnPassword
    /\ last.source.altered \in {<<"ciphertext">>, <<"iv">>, <<"mac">>}
    /\ IsOk(Keystore_encrypted_data(last.source.keystore))
    /\ IsOk(Keystore_nonce(last.source.keystore))
    /\ IsOk(Keystore_mac(last.source.keystore))

\* C9: the error of decrypt_wallet with the right password on a keystore
\* whose ciphertext, IV or MAC was altered differs from the error of
\* decrypt_wallet with a wrong password on the keystore as written.
C9_Distinguishable ==
    DecryptedDamaged =>
        \A q \in Passwords \ {last.source.password} :
            Result # decrypt_wallet(last.source.original, q).result

\* C10: generate(word_count) succeeds exactly when word_count is 12 or 24;
\* for every other word_count it fails with an error of the InvalidMnemonic
\* family and draws no entropy.
C10_Generate ==
    last.op = "generate" =>
        /\ IsOk(Result) <=> last.word_count \in {12, 24}
        /\ last.word_count \notin {12, 24} =>
              /\ IsErr(Result)
              /\ Result.error.variant = "InvalidMnemonic"
              /\ ~Called("fill_bytes")

\* C11: for n in {12, 24}, validate applied to the phrase generate(n)
\* returned succeeds, and that phrase has exactly n words.
C11_GenerateValidates ==
    (last.op = "validate_mnemonic" /\ last.source.by = "generate") =>
        /\ last.source.word_count \in {12, 24}
        /\ last.source.phrase.count = last.source.word_count
        /\ IsOk(Result)
        /\ SecureMnemonic_word_count(Result.value) = last.source.word_count

C11_Witness ==
    /\ last.op = "validate_mnemonic"
    /\ last.source.by = "generate"
    /\ last.source.word_count = 24
    /\ IsOk(Result)

\* C12: validate rejects with InvalidMnemonic every phrase whose word count
\* is not 12 or 24, also one of 15, 18 or 21 words that parses as a BIP39
\* mnemonic; it accepts only phrases of 12 or 24 words, all from the word
\* list, with a matching checksum.
C12_ValidateRechecks ==
    last.op = "validate_mnemonic" =>
        /\ last.source.phrase.count \notin {12, 24} =>
              /\ IsErr(Result)
              /\ Result.error.domain = "Cryptographic"
              /\ Result.error.variant = "InvalidMnemonic"
        /\ IsOk(Result) =>
              /\ last.source.phrase.count \in {12, 24}
              /\ last.source.phrase.known
              /\ last.source.phrase.checksum

C12_Witness ==
    /\ last.op = "validate_mnemonic"
    /\ last.source.phrase.count \in {15, 18, 21}
    /\ last.source.phrase.known
    /\ last.source.phrase.checksum
    /\ Events = <<Call("Mnemonic::from_str", TRUE), Call("is_supported_word_count", FALSE)>>
    /\ IsErr(Result)
    /\ Result.error.variant = "InvalidMnemonic"

\* the text is 64 hexadecimal characters after one optional "0x"
IsHexKey(key) ==
    LET digits == IF Len(key) >= 2 /\ key[1] = "0" /\ key[2] = "x"
                  THEN SubSeq(key, 3, Len(key)) ELSE key
    IN  /\ Len(digits) = 64
        /\ \A i \in 1..64 : digits[i] \in HexChars

\* C13: from_private_key fails with InvalidPrivateKey for every text that
\* is not 64 hexadecimal characters after one optional "0x".
C13_InvalidPrivateKey ==
    (last.op = "from_private_key" /\ ~IsHexKey(last.private_key)) =>
        /\ IsErr(Result)
        /\ Result.error.domain = "Cryptographic"
        /\ Result.error.variant = "InvalidPrivateKey"

\* C14: importing from a private-key text that is not 64 hexadecimal
\* characters fails, and the error reported is VALIDATION_001,
\* ValidationError::InvalidAddressFormat.
C14_ReportedValidation ==
    (last.op = "import_from_private_key" /\ ~IsHexKey(last.private_key)) =>
        /\ IsErr(Result)
        /\ Result.error.domain = "Validation"
        /\ Result.error.variant = "InvalidAddressFormat"
        /\ last.reported = Some(<<"Validation error: ", "VALIDATION_001">>)

C14_Witness ==
    /\ last.op = "import_from_private_key"
    /\ last.private_key = <<"i", "n", "v", "a", "l", "i", "d", "_", "k", "e", "y">>
    /\ last.reported = Some(<<"Validation error: ", "VALIDATION_001">>)

\* C15: a wallet built by from_private_key has an empty mnemonic;
\* derive_address on a wallet with an empty mnemonic fails with KdfFailed
\* for every index and derives no key; derive_address succeeds only on a
\* wallet with a non-empty mnemonic.
C15_PrivateKeyOnly ==
    /\ (last.op = "from_private_key" /\ IsOk(Result)) =>
          /\ Result.value.mnemonic.empty
          /\ ~has_mnemonic(Result.value)
    /\ (last.op = "derive_address" /\ last.wallet.mnemonic.empty) =>
          /\ IsErr(Result)
          /\ Result.error.variant = "KdfFailed"
          /\ ~Called("MnemonicBuilder::build")
    /\ (last.op = "derive_address" /\ IsOk(Result)) => ~last.wallet.mnemonic.empty

C15_Witness ==
    /\ last.op = "derive_address"
    /\ last.built_by = "from_private_key"
    /\ last.index = MaxIndex
    /\ IsErr(Result)
    /\ Result.error.variant = "KdfFailed"

EXPECTED_ADDRESS ==
    <<"0", "x", "9", "8", "5", "8", "E", "f", "F", "D", "2", "3", "2", "B",
      "4", "0", "3", "3", "E", "4", "7", "d", "9", "0", "0", "0", "3", "D",
      "4", "1", "E", "C", "3", "4", "E", "c", "a", "E", "d", "a", "9", "4">>

\* C17: for the mnemonic abandon x 11, about, the address from_mnemonic
\* stores equals 0x9858EfFD232B4033E47d90003D41EC34EcaEda94, case included,
\* and so does the address derive_address(0) returns for that wallet.
C17_Checksummed ==
    /\ (last.op = "from_mnemonic" /\ last.mnemonic = VALID_MNEMONIC_12) =>
          /\ IsOk(Result)
          /\ Result.value.address = EXPECTED_ADDRESS
    /\ (/\ last.op = "derive_address"
        /\ last.built_by = "from_mnemonic"
        /\ last.wallet.mnemonic = VALID_MNEMONIC_12
        /\ last.index = 0) =>
          /\ IsOk(Result)
          /\ Result.value.address = EXPECTED_ADDRESS

\* C18: encrypt_wallet with use_argon2 = false builds PBKDF2 parameters
\* with dklen = 32, the fixed iteration count, a hex salt and prf
\* "hmac-sha256".
C18_Pbkdf2Params ==
    (last.op = "encrypt_wallet" /\ ~last.use_argon2) =>
        /\ last.kdf_params.shape = "Pbkdf2"
        /\ last.kdf_params.dklen = 32
        /\ last.kdf_params.c = PBKDF2_ITERATIONS
        /\ IsOk(HexDecode(last.kdf_params.salt))
        /\ last.kdf_params.prf = "hmac-sha256"

\* C19: in every keystore Keystore::new, with_argon2 or with_pbkdf2
\* builds, and in every keystore encrypt_wallet returns, kdf is "argon2id"
\* exactly when kdfparams has the Argon2 shape and "pbkdf2" exactly when it
\* has the PBKDF2 shape, the cipher is "aes-256-gcm" and the version "1.0.0".
C19_KdfNameAgrees ==
    (last.op \in {"keystore_new", "encrypt_wallet"} /\ IsOk(Result)) =>
        /\ Result.value.crypto.kdf = "argon2id"
              <=> Result.value.crypto.kdfparams.shape = "Argon2"
        /\ Result.value.crypto.kdf = "pbkdf2"
              <=> Result.value.crypto.kdfparams.shape = "Pbkdf2"
        /\ Result.value.crypto.cipher = "aes-256-gcm"
        /\ Result.value.version = "1.0.0"

C19_Witness ==
    /\ last.op = "keystore_new"
    /\ last.ctor = "with_pbkdf2"
    /\ Result.value.crypto.kdf = "pbkdf2"
    /\ Result.value.crypto.kdfparams.shape = "Pbkdf2"

\* C20: decrypt_wallet stretches the key with Argon2id and the persisted
\* memory, time and parallelism when kdfparams has the Argon2 shape, with
\* PBKDF2-HMAC-SHA256 and the persisted c when it has the PBKDF2 shape, over
\* the persisted salt; the key has 32 bytes; the kdf name and the persisted
\* dklen change nothing.
C20_KdfFromParams ==
    last.op = "decrypt_wallet" =>
        LET kp == last.source.keystore.crypto.kdfparams
            key == last.out.key_bytes
        IN  /\ Len(Events) >= 4 =>
                  Events[4].call = (IF kp.shape = "Argon2" THEN "derive_key_argon2"
                                    ELSE "pbkdf2_hmac")
            /\ key.kind \notin {"none", "zero"} =>
                  /\ key.len = 32
                  /\ key.password = last.password
                  /\ Ok(key.salt) = HexDecode(kp.salt)
                  /\ IF kp.shape = "Argon2"
                     THEN /\ key.kind = "argon2id"
                          /\ key.memory = kp.memory
                          /\ key.time = kp.time
                          /\ key.parallelism = kp.parallelism
                     ELSE /\ key.kind = "pbkdf2-hmac-sha256"
                          /\ key.rounds = kp.c
            /\ last.source.altered \in {<<"kdf">>, <<"dklen">>} =>
                  last.out = decrypt_wallet(last.source.original, last.password)

C20_Witness ==
    /\ last.op = "decrypt_wallet"
    /\ last.source.altered = <<"dklen">>
    /\ last.source.keystore.crypto.kdfparams.dklen = 64
    /\ IsOk(Result)

\* the text is 40 hexadecimal characters after one optional "0x"
IsAddressText(address) ==
    LET digits == IF Len(address) >= 2 /\ address[1] = "0" /\ address[2] = "x"
                  THEN SubSeq(address, 3, Len(address)) ELSE address
    IN  /\ Len(digits) = 40
        /\ \A i \in 1..40 : digits[i] \in HexChars

AddressInvariant(a) ==
    /\ a.index # None =>
          /\ a.derivation_path # None
          /\ EndsWith(a.derivation_path[1], <<"/">> \o u32_to_string(a.index[1]))
    /\ IsAddressText(a.address)
    /\ a.network \in {"mainnet", "sepolia", "goerli", "holesky"}

\* C21: every Address that Address::new or Address::derive returns, and
\* every Address that Address::validate accepts, has a derivation path
\* ending in "/<index>" if it has an index, an address of 40 hexadecimal
\* digits after an optional 0x, and a supported network.
C21_AddressInvariant ==
    /\ (last.op \in {"address_new", "address_derive"} /\ IsOk(Result)) =>
          AddressInvariant(Result.value)
    /\ (last.op = "address_validate" /\ IsOk(Result)) => AddressInvariant(last.self)

DecimalDigits == {"0", "1", "2", "3", "4", "5", "6", "7", "8", "9"}

\* the component is decimal digits of a value up to 4294967295, with at
\* most one trailing hardening marker
IsPathComponent(component) ==
    LET digits == IF component # <<>> /\ component[Len(component)] = "'"
                  THEN SubSeq(component, 1, Len(component) - 1)
                  ELSE component
    IN  /\ digits # <<>>
        /\ \A i \in DOMAIN digits : digits[i] \in DecimalDigits
        /\ IsOk(parse_digits(digits, U32(0)))

IsDerivationPath(path) ==
    /\ Len(path) >= 2 /\ path[1] = "m" /\ path[2] = "/"
    /\ \A i \in DOMAIN split_slash(SubSeq(path, 3, Len(path))) :
          IsPathComponent(split_slash(SubSeq(path, 3, Len(path)))[i])

\* C22: validate_derivation_path accepts a text exactly when it starts with
\* "m/" and every component after it is non-empty and a decimal u32 with at
\* most one trailing hardening marker; every other text, a component with
\* a sign such as "+44" included, is rejected with
\* ValidationError::InvalidAddressFormat.
C22_PathFormat ==
    last.op = "validate_derivation_path" =>
        /\ IsOk(Result) <=> IsDerivationPath(last.path)
        /\ IsErr(Result) =>
              /\ Result.error.domain = "Validation"
              /\ Result.error.variant = "InvalidAddressFormat"

\* C23: a keystore file that save_keystore has written is readable and
\* writable by its owner only, mode 0o600
C23_OwnerOnly ==
    (last.op = "save_keystore" /\ IsOk(Result)) => disk.mode = KEYSTORE_FILE_PERMISSIONS

\* C25: the import command given neither --mnemonic nor --private-key fails
\* with UserInputError::MissingParameter
C25_MissingSource ==
    (last.op = "excute_import" /\ last.args.mnemonic = None /\ last.args.private_key = None) =>
        /\ IsErr(Result)
        /\ Result.error.domain = "UserInput"
        /\ Result.error.variant = "MissingParameter"

\* the path has a parent-directory component
HasParentDir(path) == \E i \in DOMAIN path_components(path) : path_components(path)[i] = ParentDir

\* the last call was the create command with a --save name whose target
\* has a parent-directory component
CreatedWithTraversal ==
    /\ last.op = "execute_create"
    /\ last.args.save # None
    /\ HasParentDir(join_json(WalletsPath, last.args.save[1]))

\* C27: a save target with a ".." component is rejected with PathTraversal
\* and save_keystore is not reached with it
C27_TraversalRejected ==
    /\ (last.op = "validate_file_path" /\ HasParentDir(last.path)) =>
            Result = Err(PathTraversal(last.path))
    /\ CreatedWithTraversal =>
            /\ IsErr(Result)
            /\ Result.error.variant = "PathTraversal"
            /\ ~Called("save_keystore")

\* the last call was one of the flows that save a wallet
SaveFlow == last.op \in {"execute_create", "excute_import", "save_wallet"}

\* every call named `first` comes before every call named `second`
Precedes(first, second) ==
    \A i, j \in DOMAIN Events :
        (Events[i].call = first /\ Events[j].call = second) => i < j

\* the call named `name` was made and succeeded
Succeeded(name) == \E i \in DOMAIN Events : Events[i] = Call(name, TRUE)

DecryptedAfterChange ==
    /\ DecryptedWithOwnPassword
    /\ \/ last.source.keystore.crypto.ciphertext # last.source.original.crypto.ciphertext
       \/ last.source.keystore.crypto.cipherparams.iv
              # last.source.original.crypto.cipherparams.iv
    /\ IsOk(HexDecode(last.source.keystore.crypto.ciphertext))
    /\ IsOk(HexDecode(last.source.keystore.crypto.cipherparams.iv))

\* C26: decrypt_wallet with the writer's password on a keystore whose
\* ciphertext or IV was changed to other hex text fails with DecryptionFailed
C26_Integrity ==
    DecryptedAfterChange =>
        /\ IsErr(Result)
        /\ Result.error.variant = "DecryptionFailed"

\* C29: the plaintext inside a keystore that decrypts to a wallet has no
\* master_private_key, the wallet returned is the wallet that was encrypted
\* less its key bytes, and a wallet built from a private key alone comes back
\* with neither a mnemonic nor key bytes
C29_NoKeyBytes ==
    (last.op = "decrypt_wallet" /\ IsOk(Result)) =>
        /\ "master_private_key" \notin
               DOMAIN HexDecode(last.source.keystore.crypto.ciphertext).value.plaintext.doc
        /\ Result.value.master_private_key = None
        /\ Result.value = [last.source.wallet EXCEPT !.master_private_key = None]
        /\ ~has_mnemonic(last.source.wallet) => ~has_mnemonic(Result.value)

\* a wallet built from a private key alone was encrypted and has been
\* decrypted
C29_Witness ==
    /\ last.op = "decrypt_wallet"
    /\ IsOk(Result)
    /\ ~has_mnemonic(last.source.wallet)
    /\ last.source.wallet.master_private_key # None

\* the start index of the derive command: --path when it parses as a u32,
\* --start-index otherwise
DeriveStart(args) == IF IsOk(parse_u32(args.path)) THEN parse_u32(args.path).value ELSE args.start_index

\* C30: the derive command reports the indices s, s + 1, ..., s + n - 1 in
\* that order, with no index wrapped around and no abort in the sum, and
\* stops at the first derive_address that fails
C30_DeriveIndices ==
    last.op = "execute_derive" =>
        /\ Result # Panic("attempt to add with overflow")
        /\ IsOk(Result) =>
              /\ Result.value.start_index = DeriveStart(last.args)
              /\ Len(Result.value.addresses) = last.args.count
              /\ \A k \in DOMAIN Result.value.addresses :
                    /\ ~U32_add(DeriveStart(last.args), k - 1).overflow
                    /\ Result.value.addresses[k].index
                           = U32_add(DeriveStart(last.args), k - 1).value
        /\ \A i \in DOMAIN Events :
              Events[i] = Call("derive_address", FALSE) => (i = Len(Events) /\ IsErr(Result))

====
